---- MODULE Spec2Model ----
(***************************************************************************)
(* A model of my_framework's ReAct agent runtime                           *)
(* (src/src/my_framework/agents/executor.py).                              *)
(*                                                                         *)
(* Text is modelled as a sequence of tokens.  A token is either one of the *)
(* literal markers the code searches for or prints, one whitespace         *)
(* character, or an opaque word; the regular expressions and str.strip()   *)
(* of the source are computed token by token.                              *)
(***************************************************************************)
EXTENDS Integers, Sequences, FiniteSets, TLC

\* ------------------------------------------------------------------ bounds
\* Largest max_iterations an Executor is constructed with.
MaxIter == 3
\* Longest tool list an Executor is constructed with.
MaxTools == 2
\* Most save_context calls made on the memory objects of one class, in all.
MaxTurns == 3
\* Largest window k assigned to a window memory (besides the default).
MaxK == 2
\* Longest message list handed to the chat-model adapter.
MaxMessages == 2
\* Most calls of the chat-model adapter's invoke.
MaxAdapterCalls == 2
\* Longest Sequence of Runnables composed.
MaxStages == 3

\* ------------------------------------------------------------------ tokens
FA  == "Final Answer:"
ACT == "Action:"
AI  == "Action Input:"
OBS == "Observation:"
SP  == " "
NL  == "\n"

\* The characters \s matches and str.strip() removes.
WS == {SP, NL}

\* ------------------------------------------------------------ text helpers
Min(S) == CHOOSE x \in S : \A y \in S : x <= y

\* s[from..] (empty when from is past the end).
Tail_(s, from) == SubSeq(s, from, Len(s))

\* Number of leading whitespace tokens of s: what a greedy \s* consumes.
RECURSIVE LeadingWS(_)
LeadingWS(s) ==
    IF s = <<>> \/ Head(s) \notin WS THEN 0 ELSE 1 + LeadingWS(Tail(s))

\* Number of trailing whitespace tokens of s.
RECURSIVE TrailingWS(_)
TrailingWS(s) ==
    IF s = <<>> \/ s[Len(s)] \notin WS THEN 0
    ELSE 1 + TrailingWS(SubSeq(s, 1, Len(s) - 1))

\* str.strip()
StripNoop(s) == s
Strip(s) ==
    LET l == LeadingWS(s)
    IN  IF l = Len(s) THEN <<>>
        ELSE SubSeq(s, l + 1, Len(s) - TrailingWS(s))

\* sub in s  (Python's substring test, on tokens)
Contains(s, sub) ==
    \E k \in 0..(Len(s) - Len(sub)) : SubSeq(s, k + 1, k + Len(sub)) = sub

\* ---------------------------------------------------------------- parsing
\* re.search(r"Final Answer:\s*(.*)", llm_output, re.DOTALL)
\* The positions at which the marker stands; the search takes the leftmost.
FinalPositions(s) == {k \in 1..Len(s) : s[k] = FA}

FinalAnswerMatch(s) == FinalPositions(s) # {}

\* group(1): the greedy \s* eats the whitespace after the leftmost marker,
\* (.*) with DOTALL takes all the rest.
FinalAnswerGroup1(s) ==
    LET k    == Min(FinalPositions(s))
        rest == Tail_(s, k + 1)
    IN  Tail_(rest, LeadingWS(rest) + 1)

\* re.search(r"Action:\s*(.*?)\nAction Input:\s*(.*)", llm_output, re.DOTALL)
ActionPositions(s) == {k \in 1..Len(s) : s[k] = ACT}

\* Positions j of a newline directly followed by the Action Input marker.
InputPositions(s) == {j \in 1..(Len(s) - 1) : s[j] = NL /\ s[j + 1] = AI}

\* A match starts at the leftmost Action: that has a "\nAction Input:" after
\* it; if the leftmost has none, no later one has.
ActionMatch(s) ==
    /\ ActionPositions(s) # {}
    /\ \E j \in InputPositions(s) : j > Min(ActionPositions(s))

\* Where the "\nAction Input:" of the match stands.  \s* first takes all the
\* whitespace after Action:, the lazy (.*?) then stops at the first
\* "\nAction Input:" at or after that point; when there is none, \s* backs
\* off to leave the last newline of the run for the literal "\n".
ActionInputAt(s) ==
    LET a     == Min(ActionPositions(s))
        w     == LeadingWS(Tail_(s, a + 1))
        after == {j \in InputPositions(s) : j >= a + 1 + w}
    IN  IF after # {} THEN Min(after) ELSE a + w

\* group(1)
ActionGroup1(s) ==
    LET a == Min(ActionPositions(s))
        w == LeadingWS(Tail_(s, a + 1))
        j == ActionInputAt(s)
    IN  IF j >= a + 1 + w THEN SubSeq(s, a + 1 + w, j - 1) ELSE <<>>

\* group(2): \s* after the marker, then (.*) to the end of the text.
ActionGroup2(s) ==
    LET rest == Tail_(s, ActionInputAt(s) + 2)
    IN  Tail_(rest, LeadingWS(rest) + 1)

\* --------------------------------------------------------------- messages
\* return "Agent stopped after reaching max iterations."
MaxIterationsMessage == <<"Agent stopped after reaching max iterations.">>

\* return "Agent failed to produce a valid action or final answer."
InvalidOutputMessage ==
    <<"Agent failed to produce a valid action or final answer.">>

\* f"Error: Tool '{action_name}' not found."
ToolNotFoundMessage(action_name) ==
    <<"Error: Tool '">> \o action_name \o <<"' ", "not found", ".">>

\* f"Error executing tool {action_name}: {e}"
ToolErrorMessage(action_name, e) ==
    <<"Error executing tool ">> \o action_name \o <<":", SP>> \o e

\* llm_output + f"\nObservation: {observation}\n"
ScratchpadEntryNoObservation(out, obs) == out \o <<NL>>
ScratchpadEntry(out, obs) == out \o <<NL, OBS, SP>> \o obs \o <<NL>>

\* ------------------------------------------------------------------ tools
\* A tool is its name and the function it wraps.  "echo" returns its input
\* verbatim; "flaky" either returns a fixed text or raises.
ToolPool ==
    { [name |-> <<"echo">>,   fn |-> "echo"],
      [name |-> <<"echo">>,   fn |-> "flaky"],
      [name |-> <<"search">>, fn |-> "flaky"] }

RECURSIVE SeqsUpTo(_, _)
SeqsUpTo(S, n) ==
    IF n = 0 THEN {<<>>}
    ELSE LET shorter == SeqsUpTo(S, n - 1)
         IN  shorter \cup {Append(q, x) : q \in shorter, x \in S}

\* What tool.run(action_input) can do: the set of its outcomes.
ToolOutcomes(t, action_input) ==
    IF t.fn = "echo"
    THEN { [raised |-> FALSE, text |-> action_input] }
    ELSE { [raised |-> FALSE, text |-> <<"ok">>],
           [raised |-> TRUE,  text |-> <<"boom">>] }

\* -------------------------------------------------------- model responses
\* The texts the chat model answers with.
Responses ==
    { <<FA, SP, "42">>,
      <<FA, SP, "done">>,
      <<FA, NL>>,
      <<FA, SP, "a", SP, FA, SP, "b", NL>>,
      <<FA, SP>> \o MaxIterationsMessage,
      <<"Thought:", SP, "x", NL, ACT, SP, "echo", NL, AI, SP, "hi", NL,
        FA, SP, "42", NL>>,
      <<ACT, SP, "echo", NL, AI, SP, "hi">>,
      <<ACT, SP, "missing_tool", NL, AI, SP, "hi">>,
      <<ACT, SP, "search", NL, AI, SP, "q", NL, OBS, SP, "x">>,
      <<ACT, SP, "echo", SP, AI, SP, "hi">>,
      <<"hello">> }

\* The texts used when two invocations run interleaved.
ConcurrentResponses ==
    { <<FA, SP, "42">>,
      <<ACT, SP, "echo", NL, AI, SP, "hi">>,
      <<ACT, SP, "missing_tool", NL, AI, SP, "q">>,
      <<ACT, NL, AI>>,
      <<"hello">> }

\* The user input an invocation is given.
Inputs == { <<"what", SP, "is", SP, "6x7?">> }

\* The user input used when two invocations run interleaved.
ConcurrentInputs == { <<"hi">> }

\* The invocations of one Executor instance that may be in progress at once.
Invocations == {1, 2}

\* ------------------------------------------------------------------ state
VARIABLES
    \* the Executor object's fields
    tools,              \* self.tools: the list of tools, in registration order
    max_iterations,     \* self.max_iterations
    \* the locals of each invocation of invoke
    pc,                 \* where the invocation stands
    intermediate_steps, \* the scratchpad
    i,                  \* the loop variable of "for i in range(...)"
    llm_output,         \* response.content of the last model call
    action_name,        \* parsed action name (while a tool runs)
    action_input,       \* parsed action input (while a tool runs)
    result,             \* the returned string, once returned
    exit,               \* which return statement ended the invocation
    \* history of each invocation, kept to state the properties
    prompts,            \* agent_scratchpad rendered into each model call
    outputs,            \* every llm_output received
    observations,       \* every observation appended to the scratchpad
    tool_runs,          \* every tool.run call: tool, input, outcome, iteration
    user_query,         \* user_input = input.get("input", "")
    tool_names,         \* the tool-name list, built once per invocation
    tools_str,          \* the tool catalogue, built once per invocation
    rendered,           \* what else was rendered into each model call's prompt
    constructed         \* the Executor's fields as set at construction

\* The conversational memories (src/src/my_framework/memory/types.py).
VARIABLES
    memory_class,       \* which memory class the objects are instances of
    class_chat_history, \* the class attribute "chat_history: List = []"
    memory,             \* each memory object: its instance attributes
    loaded,             \* what the last call returned, if it was a load
    memory_log,         \* history of each object, kept to state the properties
    memory_op           \* the last operation performed and its object

\* The chat-model adapter (src/src/my_framework/models/openai.py).
VARIABLES
    adapter_pc,         \* where ChatOpenAI.invoke stands
    chat_messages,      \* the messages argument of the call
    formatted,          \* the list built for the provider
    adapter_out,        \* what invoke returned or raised
    adapter_calls       \* calls of invoke so far

\* The Runnable composition protocol (my_framework.core.runnables).
VARIABLES
    r_kind,             \* "sequence" or "parallel": the composition invoked
    r_children,         \* its children: leaves in order, or key/leaf pairs
    r_input,            \* the argument of invoke
    r_pc,               \* where invoke stands
    r_value,            \* the value handed to the next stage of a sequence
    r_partial,          \* the results of the branches evaluated so far
    r_out,              \* what invoke returned or raised
    r_calls             \* every child invoke made: child, input, outcome

\* The article generation tool (src/src/my_framework/apps/journalist.py).
VARIABLES
    j_pc,               \* where generate_article_and_metadata stands
    source_content,     \* what scrape_content returned
    draft_article,      \* what get_initial_draft returned
    revised_article,    \* what get_revised_article returned
    final_json_string,  \* what get_seo_metadata returned
    j_out,              \* what the tool returned or raised
    j_calls             \* the stages called so far, in order

\* The journalist workflow of the two servers (src/my_framework/app/server.py
\* and src/app/server.py).
VARIABLES
    server,             \* which of the two server modules runs
    config_data,        \* which fields of each article slot are filled in
    active_tab,         \* config_data.get('active_tab', 'generate')
    w_pc,               \* where journalist_workflow stands
    slot,               \* the loop variable of "for i in range(1, 4)"
    article_json_string, \* what the producing tool returned for the slot
    w_calls             \* every tool call made: slot, tool, outcome

agentVars == <<tools, max_iterations, pc, intermediate_steps, i, llm_output,
               action_name, action_input, result, exit, prompts, outputs,
               observations, tool_runs, user_query, tool_names, tools_str,
               rendered, constructed>>

memoryVars == <<memory_class, class_chat_history, memory, loaded,
                memory_log, memory_op>>

adapterVars == <<adapter_pc, chat_messages, formatted, adapter_out,
                 adapter_calls>>

runnableVars == <<r_kind, r_children, r_input, r_pc, r_value, r_partial,
                  r_out, r_calls>>

journalistVars == <<j_pc, source_content, draft_article, revised_article,
                    final_json_string, j_out, j_calls>>

workflowVars == <<server, config_data, active_tab, w_pc, slot,
                  article_json_string, w_calls>>

vars == <<agentVars, memoryVars, adapterVars, runnableVars, journalistVars,
          workflowVars>>

\* The objects of the process that a component has no reference to.
outsideExecutor ==
    <<memoryVars, adapterVars, runnableVars, journalistVars, workflowVars>>
outsideMemory ==
    <<agentVars, adapterVars, runnableVars, journalistVars, workflowVars>>
outsideAdapter ==
    <<agentVars, memoryVars, runnableVars, journalistVars, workflowVars>>
outsideRunnable ==
    <<agentVars, memoryVars, adapterVars, journalistVars, workflowVars>>
outsideJournalist ==
    <<agentVars, memoryVars, adapterVars, runnableVars, workflowVars>>
outsideWorkflow ==
    <<agentVars, memoryVars, adapterVars, runnableVars, journalistVars>>

\* What no step of invoke touches: the Executor's fields, and the objects of
\* the process that invoke has no reference to.
executor == <<tools, max_iterations, constructed, outsideExecutor>>

\* The locals of invoke that lines 62-64 set once, before the loop.
rendering == <<user_query, tool_names, tools_str>>

\* The memory objects of one class that exist in the process.
MemoryObjects == {1, 2}

\* A memory object that has not been created yet.
NoMemory ==
    [created |-> FALSE, own |-> FALSE, chat_history |-> <<>>, k |-> 0,
     summary |-> <<>>]

NoLog == [saved |-> <<>>, cleared |-> FALSE, llm_calls |-> <<>>]

NoOp == [op |-> "none", obj |-> 0]
NoLoad == [key |-> "", messages |-> <<>>]

\* No memory object is in play.
MemoryUnused ==
    /\ memory_class = "none"
    /\ class_chat_history = <<>>
    /\ memory = [m \in MemoryObjects |-> NoMemory]
    /\ loaded = NoLoad
    /\ memory_log = [m \in MemoryObjects |-> NoLog]
    /\ memory_op = NoOp

NoOutcome == [kind |-> "none", value |-> ""]

\* No chat-model adapter is in play.
AdapterUnused ==
    /\ adapter_pc = "idle"
    /\ chat_messages = <<>>
    /\ formatted = <<>>
    /\ adapter_out = NoOutcome
    /\ adapter_calls = 0

\* Nothing returned or raised yet by a Runnable.
NoResult == [kind |-> "none", value |-> 0, mapping |-> {}, error |-> ""]

\* No composition is in play.
RunnableUnused ==
    /\ r_kind = "none"
    /\ r_children = <<>>
    /\ r_input = 0
    /\ r_pc = "idle"
    /\ r_value = 0
    /\ r_partial = {}
    /\ r_out = NoResult
    /\ r_calls = <<>>

\* Nothing returned or raised yet by a tool.
NoToolResult == [kind |-> "none", text |-> <<>>]

\* The article generation tool is not in play.
JournalistUnused ==
    /\ j_pc = "idle"
    /\ source_content = <<>>
    /\ draft_article = <<>>
    /\ revised_article = <<>>
    /\ final_json_string = <<>>
    /\ j_out = NoToolResult
    /\ j_calls = <<>>

\* No workflow runs.
EmptySlot == [source_url |-> FALSE, prompt |-> FALSE, article_text |-> FALSE]
WorkflowUnused ==
    /\ server = "none"
    /\ config_data = <<EmptySlot, EmptySlot, EmptySlot>>
    /\ active_tab = "generate"
    /\ w_pc = "idle"
    /\ slot = 1
    /\ article_json_string = NoToolResult
    /\ w_calls = <<>>

\* ----------------------------------------------------------- construction
\* AgentExecutor(llm=..., tools=[...], max_iterations=n): the fields are
\* stored as given; the declaration checks their types only.
ToolLists == SeqsUpTo(ToolPool, MaxTools)

InitInvocation ==
    /\ pc = [c \in Invocations |-> "idle"]
    /\ intermediate_steps = [c \in Invocations |-> <<>>]
    /\ i = [c \in Invocations |-> 0]
    /\ llm_output = [c \in Invocations |-> <<>>]
    /\ action_name = [c \in Invocations |-> <<>>]
    /\ action_input = [c \in Invocations |-> <<>>]
    /\ result = [c \in Invocations |-> <<>>]
    /\ exit = [c \in Invocations |-> "none"]
    /\ prompts = [c \in Invocations |-> <<>>]
    /\ outputs = [c \in Invocations |-> <<>>]
    /\ observations = [c \in Invocations |-> <<>>]
    /\ tool_runs = [c \in Invocations |-> <<>>]
    /\ user_query = [c \in Invocations |-> <<>>]
    /\ tool_names = [c \in Invocations |-> <<>>]
    /\ tools_str = [c \in Invocations |-> <<>>]
    /\ rendered = [c \in Invocations |-> <<>>]

Init ==
    /\ tools \in ToolLists
    /\ max_iterations \in 0..MaxIter
    /\ constructed = [tools |-> tools, max_iterations |-> max_iterations]
    /\ InitInvocation
    /\ MemoryUnused
    /\ AdapterUnused
    /\ RunnableUnused
    /\ JournalistUnused
    /\ WorkflowUnused

\* One Executor with the echo tool and the largest iteration budget, for the
\* interleaved runs.
InitConcurrent ==
    /\ tools = << [name |-> <<"echo">>, fn |-> "echo"] >>
    /\ max_iterations = MaxIter
    /\ constructed = [tools |-> tools, max_iterations |-> max_iterations]
    /\ InitInvocation
    /\ MemoryUnused
    /\ AdapterUnused
    /\ RunnableUnused
    /\ JournalistUnused
    /\ WorkflowUnused

\* ---------------------------------------------------------------- helpers
\* _get_tool_by_name: the index of the first tool of that name, 0 for None.
GetToolByNameLast(ts, name) ==
    LET hits == {k \in 1..Len(ts) : ts[k].name = name}
    IN  IF hits = {} THEN 0 ELSE CHOOSE k \in hits : \A h \in hits : h <= k
GetToolByName(ts, name) ==
    LET hits == {k \in 1..Len(ts) : ts[k].name = name}
    IN  IF hits = {} THEN 0 ELSE Min(hits)

\* for i in range(self.max_iterations): is there another iteration?
InRangeInclusive(it, n) == it <= n
InRange(it, n) == it < n

\* The if-chain after the two searches: the final answer is tested first.
ParseActionFirst(s) ==
    IF ActionMatch(s) THEN "action"
    ELSE IF FinalAnswerMatch(s) THEN "final"
    ELSE "invalid"
Parse(s) ==
    IF FinalAnswerMatch(s) THEN "final"
    ELSE IF ActionMatch(s) THEN "action"
    ELSE "invalid"

\* intermediate_steps += ...: the scratchpad is a local of the invocation.
\* _format_tools: one line "- name: description" per tool, joined by
\* newlines; the description is the docstring of the wrapped function.
RECURSIVE FormatTools(_)
FormatTools(ts) ==
    IF ts = <<>> THEN <<>>
    ELSE LET line == <<"-", SP>> \o ts[1].name \o <<":", SP, ts[1].fn>>
         IN  IF Len(ts) = 1 THEN line
             ELSE line \o <<NL>> \o FormatTools(Tail(ts))

\* ", ".join([tool.name for tool in self.tools])
RECURSIVE ToolNames(_)
ToolNames(ts) ==
    IF ts = <<>> THEN <<>>
    ELSE IF Len(ts) = 1 THEN ts[1].name
    ELSE ts[1].name \o <<",", SP>> \o ToolNames(Tail(ts))

\* prompt_template.format(...): what lines 73-78 put into the prompt of one
\* model call, the scratchpad apart.
RenderBlanksInputLater(c) ==
    [tools |-> tools_str[c], tool_names |-> tool_names[c],
     input |-> IF i[c] = 0 THEN user_query[c] ELSE <<>>]
Render(c) ==
    [tools |-> tools_str[c], tool_names |-> tool_names[c],
     input |-> user_query[c]]

AppendStepsShared(steps, c, entry) ==
    [d \in DOMAIN steps |-> steps[d] \o entry]
AppendSteps(steps, c, entry) == [steps EXCEPT ![c] = @ \o entry]

\* ---------------------------------------------------------------- actions
\* invoke is entered: lines 62-69 set up the locals of this invocation.
InvokeKeepsScratchpad(c, I) ==
    /\ pc[c] \in {"idle", "returned", "raised"}
    /\ pc' = [pc EXCEPT ![c] = "loop"]
    /\ i' = [i EXCEPT ![c] = 0]
    /\ llm_output' = [llm_output EXCEPT ![c] = <<>>]
    /\ action_name' = [action_name EXCEPT ![c] = <<>>]
    /\ action_input' = [action_input EXCEPT ![c] = <<>>]
    /\ result' = [result EXCEPT ![c] = <<>>]
    /\ exit' = [exit EXCEPT ![c] = "none"]
    /\ prompts' = [prompts EXCEPT ![c] = <<>>]
    /\ outputs' = [outputs EXCEPT ![c] = <<>>]
    /\ observations' = [observations EXCEPT ![c] = <<>>]
    /\ tool_runs' = [tool_runs EXCEPT ![c] = <<>>]
    /\ \E input \in I :
          user_query' = [user_query EXCEPT ![c] = input]
    /\ tool_names' = [tool_names EXCEPT ![c] = ToolNames(tools)]
    /\ tools_str' = [tools_str EXCEPT ![c] = FormatTools(tools)]
    /\ rendered' = [rendered EXCEPT ![c] = <<>>]
    /\ UNCHANGED <<executor, intermediate_steps>>
Invoke(c, I) ==
    /\ pc[c] \in {"idle", "returned", "raised"}
    /\ pc' = [pc EXCEPT ![c] = "loop"]
    /\ intermediate_steps' = [intermediate_steps EXCEPT ![c] = <<>>]
    /\ i' = [i EXCEPT ![c] = 0]
    /\ llm_output' = [llm_output EXCEPT ![c] = <<>>]
    /\ action_name' = [action_name EXCEPT ![c] = <<>>]
    /\ action_input' = [action_input EXCEPT ![c] = <<>>]
    /\ result' = [result EXCEPT ![c] = <<>>]
    /\ exit' = [exit EXCEPT ![c] = "none"]
    /\ prompts' = [prompts EXCEPT ![c] = <<>>]
    /\ outputs' = [outputs EXCEPT ![c] = <<>>]
    /\ observations' = [observations EXCEPT ![c] = <<>>]
    /\ tool_runs' = [tool_runs EXCEPT ![c] = <<>>]
    /\ \E input \in I :
          user_query' = [user_query EXCEPT ![c] = input]
    /\ tool_names' = [tool_names EXCEPT ![c] = ToolNames(tools)]
    /\ tools_str' = [tools_str EXCEPT ![c] = FormatTools(tools)]
    /\ rendered' = [rendered EXCEPT ![c] = <<>>]
    /\ UNCHANGED executor

\* One more iteration: the prompt is rendered with the scratchpad and the
\* chat model answers with one of the texts of R.
LlmInvoke(c, R) ==
    /\ pc[c] = "loop"
    /\ InRange(i[c], max_iterations)
    /\ \E r \in R :
          /\ llm_output' = [llm_output EXCEPT ![c] = r]
          /\ outputs' = [outputs EXCEPT ![c] = Append(@, r)]
    /\ prompts' = [prompts EXCEPT ![c] = Append(@, intermediate_steps[c])]
    /\ pc' = [pc EXCEPT ![c] = "parse"]
    /\ rendered' = [rendered EXCEPT ![c] = Append(@, Render(c))]
    /\ UNCHANGED <<executor, rendering, intermediate_steps, i, action_name,
                   action_input, result, exit, observations, tool_runs>>

\* The chat model call raises: nothing in invoke catches it.
LlmInvokeRaisesRetried(c) ==
    /\ pc[c] = "loop"
    /\ InRange(i[c], max_iterations)
    /\ prompts' = [prompts EXCEPT ![c] = Append(@, intermediate_steps[c])]
    /\ i' = [i EXCEPT ![c] = @ + 1]
    /\ rendered' = [rendered EXCEPT ![c] = Append(@, Render(c))]
    /\ UNCHANGED <<executor, rendering, pc, intermediate_steps, llm_output,
                   action_name, action_input, result, exit, outputs,
                   observations, tool_runs>>
LlmInvokeRaises(c) ==
    /\ pc[c] = "loop"
    /\ InRange(i[c], max_iterations)
    /\ prompts' = [prompts EXCEPT ![c] = Append(@, intermediate_steps[c])]
    /\ pc' = [pc EXCEPT ![c] = "raised"]
    /\ rendered' = [rendered EXCEPT ![c] = Append(@, Render(c))]
    /\ UNCHANGED <<executor, rendering, intermediate_steps, i, llm_output,
                   action_name, action_input, result, exit, outputs,
                   observations, tool_runs>>

\* The loop is exhausted: line 114.
ReturnMaxIterations(c) ==
    /\ pc[c] = "loop"
    /\ ~InRange(i[c], max_iterations)
    /\ result' = [result EXCEPT ![c] = MaxIterationsMessage]
    /\ exit' = [exit EXCEPT ![c] = "limit"]
    /\ pc' = [pc EXCEPT ![c] = "returned"]
    /\ UNCHANGED <<executor, rendering, rendered, intermediate_steps, i,
                   llm_output, action_name, action_input, prompts, outputs,
                   observations, tool_runs>>

\* if final_answer_match: return final_answer_match.group(1).strip()
ReturnFinalAnswer(c) ==
    /\ pc[c] = "parse"
    /\ Parse(llm_output[c]) = "final"
    /\ result' = [result EXCEPT ![c] = Strip(FinalAnswerGroup1(llm_output[c]))]
    /\ exit' = [exit EXCEPT ![c] = "final"]
    /\ pc' = [pc EXCEPT ![c] = "returned"]
    /\ UNCHANGED <<executor, rendering, rendered, intermediate_steps, i,
                   llm_output, action_name, action_input, prompts, outputs,
                   observations, tool_runs>>

\* else: return "Agent failed to produce a valid action or final answer."
ReturnInvalidOutputRawLater(c) ==
    /\ pc[c] = "parse"
    /\ Parse(llm_output[c]) = "invalid"
    /\ result' = [result EXCEPT ![c] =
                     IF i[c] = 0 THEN InvalidOutputMessage
                     ELSE Strip(llm_output[c])]
    /\ exit' = [exit EXCEPT ![c] = "invalid"]
    /\ pc' = [pc EXCEPT ![c] = "returned"]
    /\ UNCHANGED <<executor, rendering, rendered, intermediate_steps, i,
                   llm_output, action_name, action_input, prompts, outputs,
                   observations, tool_runs>>
ReturnInvalidOutput(c) ==
    /\ pc[c] = "parse"
    /\ Parse(llm_output[c]) = "invalid"
    /\ result' = [result EXCEPT ![c] = InvalidOutputMessage]
    /\ exit' = [exit EXCEPT ![c] = "invalid"]
    /\ pc' = [pc EXCEPT ![c] = "returned"]
    /\ UNCHANGED <<executor, rendering, rendered, intermediate_steps, i,
                   llm_output, action_name, action_input, prompts, outputs,
                   observations, tool_runs>>

\* if action_match: the name and input are stripped, the tool is looked up
\* and found; its run method is about to be called.
DispatchTool(c) ==
    /\ pc[c] = "parse"
    /\ Parse(llm_output[c]) = "action"
    /\ LET name == Strip(ActionGroup1(llm_output[c]))
       IN  /\ GetToolByName(tools, name) # 0
           /\ action_name' = [action_name EXCEPT ![c] = name]
    /\ action_input' =
          [action_input EXCEPT ![c] = Strip(ActionGroup2(llm_output[c]))]
    /\ pc' = [pc EXCEPT ![c] = "tool"]
    /\ UNCHANGED <<executor, rendering, rendered, intermediate_steps, i,
                   llm_output, result, exit, prompts, outputs, observations,
                   tool_runs>>

\* if action_match: no tool has the parsed name; the observation says so and
\* the scratchpad is extended.
ToolNotFoundRaises(c) ==
    /\ pc[c] = "parse"
    /\ Parse(llm_output[c]) = "action"
    /\ GetToolByName(tools, Strip(ActionGroup1(llm_output[c]))) = 0
    /\ pc' = [pc EXCEPT ![c] = "raised"]
    /\ UNCHANGED <<executor, rendering, rendered, intermediate_steps, i,
                   llm_output, action_name, action_input, result, exit,
                   prompts, outputs, observations, tool_runs>>
ToolNotFound(c) ==
    /\ pc[c] = "parse"
    /\ Parse(llm_output[c]) = "action"
    /\ LET name == Strip(ActionGroup1(llm_output[c]))
           observation == ToolNotFoundMessage(name)
       IN  /\ GetToolByName(tools, name) = 0
           /\ intermediate_steps' =
                 AppendSteps(intermediate_steps, c,
                             ScratchpadEntry(llm_output[c], observation))
           /\ observations' = [observations EXCEPT ![c] = Append(@, observation)]
    /\ i' = [i EXCEPT ![c] = @ + 1]
    /\ pc' = [pc EXCEPT ![c] = "loop"]
    /\ UNCHANGED <<executor, rendering, rendered, llm_output, action_name,
                   action_input, result, exit, prompts, outputs, tool_runs>>

\* tool.run(action_input) returns or raises; either way the outcome becomes
\* the observation and the scratchpad is extended.
ToolRunUncaught(c) ==
    /\ pc[c] = "tool"
    /\ LET k == GetToolByName(tools, action_name[c])
       IN  \E o \in ToolOutcomes(tools[k], action_input[c]) :
              /\ tool_runs' = [tool_runs EXCEPT ![c] =
                    Append(@, [tool |-> k, input |-> action_input[c],
                               outcome |-> o, at |-> i[c]])]
              /\ IF o.raised
                 THEN /\ pc' = [pc EXCEPT ![c] = "raised"]
                      /\ UNCHANGED <<intermediate_steps, observations, i>>
                 ELSE /\ intermediate_steps' =
                            AppendSteps(intermediate_steps, c,
                                        ScratchpadEntry(llm_output[c], o.text))
                      /\ observations' =
                            [observations EXCEPT ![c] = Append(@, o.text)]
                      /\ i' = [i EXCEPT ![c] = @ + 1]
                      /\ pc' = [pc EXCEPT ![c] = "loop"]
    /\ UNCHANGED <<executor, rendering, rendered, llm_output, action_name,
                   action_input, result, exit, prompts, outputs>>
ToolRun(c) ==
    /\ pc[c] = "tool"
    /\ LET k == GetToolByName(tools, action_name[c])
       IN  \E o \in ToolOutcomes(tools[k], action_input[c]) :
              LET observation ==
                      IF o.raised
                      THEN ToolErrorMessage(action_name[c], o.text)
                      ELSE o.text
              IN  /\ tool_runs' = [tool_runs EXCEPT ![c] =
                        Append(@, [tool |-> k, input |-> action_input[c],
                                   outcome |-> o, at |-> i[c]])]
                  /\ intermediate_steps' =
                        AppendSteps(intermediate_steps, c,
                                    ScratchpadEntry(llm_output[c], observation))
                  /\ observations' =
                        [observations EXCEPT ![c] = Append(@, observation)]
    /\ i' = [i EXCEPT ![c] = @ + 1]
    /\ pc' = [pc EXCEPT ![c] = "loop"]
    /\ UNCHANGED <<executor, rendering, rendered, llm_output, action_name,
                   action_input, result, exit, prompts, outputs>>

\* ---------------------------------------------------------- specifications
Step(c, R, I) ==
    \/ Invoke(c, I)
    \/ LlmInvoke(c, R)
    \/ LlmInvokeRaises(c)
    \/ ReturnMaxIterations(c)
    \/ ReturnFinalAnswer(c)
    \/ ReturnInvalidOutput(c)
    \/ DispatchTool(c)
    \/ ToolNotFound(c)
    \/ ToolRun(c)

\* One invocation at a time, over every Executor and every response.
Next == Step(1, Responses, Inputs)

Spec == Init /\ [][Next]_vars

\* Two invocations of the same Executor, interleaved at will.
NextConcurrent ==
    \E c \in Invocations : Step(c, ConcurrentResponses, ConcurrentInputs)

SpecConcurrent == InitConcurrent /\ [][NextConcurrent]_vars

\* ------------------------------------------------------------ properties
\* Vocabulary of the properties, read off the recorded history.

\* The number of chat-model calls the invocation has made (failed ones too).
ModelCalls(c) == Len(prompts[c])

\* The text holds the Final Answer: marker somewhere.
HasFinalMarker(s) == \E k \in 1..Len(s) : s[k] = FA

\* The text after the first Final Answer: marker.
AfterFinalMarker(s) ==
    LET k == CHOOSE m \in 1..Len(s) : s[m] = FA /\ \A n \in 1..(m - 1) : s[n] # FA
    IN  SubSeq(s, k + 1, Len(s))

\* The text is an action request: no Final Answer:, and an Action: /
\* Action Input: pair the parser recognises.
IsActionRequest(s) == ~HasFinalMarker(s) /\ ActionMatch(s)

RequestedName(s) == Strip(ActionGroup1(s))
RequestedInput(s) == Strip(ActionGroup2(s))

Registered(name) == \E k \in 1..Len(tools) : tools[k].name = name

\* The tool.run calls made while handling the k-th response.
RunsOfStep(c, k) ==
    {n \in 1..Len(tool_runs[c]) : tool_runs[c][n].at = k - 1}

\* The scratchpad after the first n observations, written out.
RECURSIVE Transcript(_, _, _)
Transcript(outs, obs, n) ==
    IF n = 0 THEN <<>>
    ELSE Transcript(outs, obs, n - 1)
            \o outs[n] \o <<NL, "Observation:", " ">> \o obs[n] \o <<NL>>

EchoHi == <<ACT, SP, "echo", NL, AI, SP, "hi">>

\* C1: for every Executor with max_iterations = N, whatever the chat model
\* and the tools do, one invocation of invoke makes at most N model calls.
C1_AtMostMaxIterationsModelCalls ==
    \A c \in Invocations : ModelCalls(c) <= max_iterations

\* C1 witness: an invocation that used its whole budget of at least two
\* calls, dispatching tools on the way, and has returned.
C1_Witness ==
    /\ max_iterations >= 2
    /\ pc[1] = "returned"
    /\ ModelCalls(1) = max_iterations
    /\ Len(tool_runs[1]) >= 1

C3_FinalAnswerReturned ==
    \A c \in Invocations : \A k \in 1..Len(outputs[c]) :
        HasFinalMarker(outputs[c][k]) =>
            /\ k = Len(outputs[c])
            /\ ModelCalls(c) = k
            /\ RunsOfStep(c, k) = {}
            /\ Len(observations[c]) = k - 1
            /\ pc[c] \in {"parse", "returned"}
            /\ pc[c] = "returned" =>
                  /\ result[c] = Strip(AfterFinalMarker(outputs[c][k]))
                  /\ (outputs[c] = << <<FA, SP, "42">> >> => result[c] = <<"42">>)

\* C3 witness: an invocation returned on a response that holds both an
\* Action / Action Input pair and Final Answer:, after an earlier tool step.
C3_Witness ==
    /\ pc[1] = "returned"
    /\ Len(outputs[1]) >= 2
    /\ HasFinalMarker(outputs[1][Len(outputs[1])])
    /\ ActionMatch(outputs[1][Len(outputs[1])])
    /\ result[1] = <<"42">>

\* C4: a response that is an action request naming a registered tool gets
\* that tool run exactly once, with the parsed action input, and the
\* scratchpad of the next model call holds "Observation: " followed by what
\* the tool returned (it is the previous scratchpad, the response, a
\* newline, "Observation: ", the returned text and a newline); with the responses "Action: echo\nAction Input: hi",
\* "Final Answer: done" and an echo tool there are exactly 2 model calls and
\* the second scratchpad holds "Observation: hi".
C4_ToolRunOnceAndObserved ==
    \A c \in Invocations :
        /\ \A k \in 1..Len(observations[c]) :
              LET out == outputs[c][k]
              IN  (IsActionRequest(out) /\ Registered(RequestedName(out))) =>
                     /\ Cardinality(RunsOfStep(c, k)) = 1
                     /\ \A n \in RunsOfStep(c, k) :
                           LET run == tool_runs[c][n]
                           IN  /\ tools[run.tool].name = RequestedName(out)
                               /\ run.input = RequestedInput(out)
                               /\ (~run.outcome.raised /\ ModelCalls(c) > k) =>
                                     prompts[c][k + 1] =
                                        prompts[c][k] \o out
                                           \o <<NL, "Observation:", " ">>
                                           \o run.outcome.text \o <<NL>>
        /\ ( /\ pc[c] = "returned"
             /\ outputs[c] = <<EchoHi, <<FA, SP, "done">> >>
             /\ \A t \in 1..Len(tools) :
                   tools[t].name = <<"echo">> => tools[t].fn = "echo" )
           => /\ ModelCalls(c) = 2
              /\ Registered(<<"echo">>) =>
                    Contains(prompts[c][2], <<"Observation:", " ", "hi">>)

\* C4 witness: the example itself, run to the end with an echo tool.
C4_Witness ==
    /\ pc[1] = "returned"
    /\ outputs[1] = <<EchoHi, <<FA, SP, "done">> >>
    /\ Len(tool_runs[1]) = 1
    /\ tools[tool_runs[1][1].tool].fn = "echo"
    /\ result[1] = <<"done">>

\* The only way out of invoke by an exception is a chat-model call that
\* raised: the prompt was rendered and no response came back.
RaisedOnlyByModelCall(c) ==
    pc[c] = "raised" => ModelCalls(c) = Len(outputs[c]) + 1

\* The k-th response asked for a tool that is not registered.
UnknownToolStep(c, k) ==
    /\ IsActionRequest(outputs[c][k])
    /\ ~Registered(RequestedName(outputs[c][k]))

\* C5 as stated: an action name that matches no registered tool yields an
\* observation holding "not found" and the invocation goes on to a later
\* model call; so a returned invocation has made a model call after it.
C5_Original ==
    \A c \in Invocations : \A k \in 1..Len(observations[c]) :
        UnknownToolStep(c, k) =>
            /\ Contains(observations[c][k], <<"not found">>)
            /\ pc[c] = "returned" => ModelCalls(c) > k

\* C5 amended: an action name that matches no registered tool never makes
\* invoke raise; no tool is run, the observation appended to the scratchpad
\* holds "not found", and while iterations remain (fewer than
\* max_iterations model calls made) the invocation goes on to a further
\* model call; on the last permitted iteration it returns the
\* iteration-limit sentinel instead.
C5_UnknownToolContained ==
    \A c \in Invocations :
        /\ RaisedOnlyByModelCall(c)
        /\ (pc[c] = "parse" /\ UnknownToolStep(c, Len(outputs[c]))) =>
              ModelCalls(c) = Len(outputs[c])
        /\ \A k \in 1..Len(outputs[c]) :
              (UnknownToolStep(c, k) /\ (k < Len(outputs[c]) \/ pc[c] # "parse")) =>
                  /\ Len(observations[c]) >= k
                  /\ Contains(observations[c][k], <<"not found">>)
                  /\ Contains(observations[c][k], RequestedName(outputs[c][k]))
                  /\ RunsOfStep(c, k) = {}
                  /\ ModelCalls(c) > k =>
                        prompts[c][k + 1] =
                           prompts[c][k] \o outputs[c][k]
                              \o <<NL, "Observation:", " ">>
                              \o observations[c][k] \o <<NL>>
                  /\ k < max_iterations => (ModelCalls(c) > k \/ pc[c] = "loop")
                  /\ (k = max_iterations /\ pc[c] = "returned") =>
                        result[c] = MaxIterationsMessage

\* C5 witness: an unknown tool was requested, observed, and the next model
\* call has been answered.
C5_Witness ==
    /\ Len(outputs[1]) >= 2
    /\ UnknownToolStep(1, 1)
    /\ Contains(prompts[1][2], <<"not found">>)

\* C6: a tool that raises never makes invoke raise: the failure becomes an
\* observation that reports the tool execution error, the observation is
\* appended to the scratchpad, and the loop goes on as after a successful
\* tool call (the iteration is counted, the loop head is reached).
C6_ToolFailureContained ==
    \A c \in Invocations :
        /\ RaisedOnlyByModelCall(c)
        /\ \A n \in 1..Len(tool_runs[c]) :
              LET run == tool_runs[c][n]
                  k   == run.at + 1
              IN  /\ Len(observations[c]) >= k
                  /\ i[c] >= k
                  /\ run.outcome.raised =>
                        /\ Contains(observations[c][k], <<"Error executing tool ">>)
                        /\ Contains(observations[c][k], run.outcome.text)
                        /\ Contains(observations[c][k], tools[run.tool].name)
                  /\ ~run.outcome.raised => observations[c][k] = run.outcome.text
                  /\ k = Len(outputs[c]) => pc[c] \in {"loop", "returned", "raised"}
                  /\ ModelCalls(c) > k =>
                        prompts[c][k + 1] =
                           prompts[c][k] \o outputs[c][k]
                              \o <<NL, "Observation:", " ">>
                              \o observations[c][k] \o <<NL>>

\* C6 witness: a tool raised and the model was called again with the error
\* in its scratchpad.
C6_Witness ==
    /\ Len(tool_runs[1]) >= 1
    /\ tool_runs[1][1].outcome.raised
    /\ Len(outputs[1]) >= 2
    /\ Contains(prompts[1][2], <<"Error executing tool ">>)

\* C7: the iteration-limit sentinel is returned, not raised, and no
\* invocation that ends through a Final Answer: response returns the same
\* string as the sentinel.
C7_SentinelDistinctFromFinalAnswers ==
    \A c \in Invocations :
        /\ (pc[c] = "returned" /\ exit[c] = "limit") =>
              result[c] = MaxIterationsMessage
        /\ ( /\ pc[c] = "returned"
             /\ outputs[c] # <<>>
             /\ HasFinalMarker(outputs[c][Len(outputs[c])]) )
           => result[c] # MaxIterationsMessage

\* No two tools of the list have the same name.
UniqueToolNames ==
    \A a, b \in 1..Len(tools) : tools[a].name = tools[b].name => a = b

\* C8: tool names are unique within one Executor's registry: a tool list
\* with a duplicate name is refused at construction, so no invocation ever
\* runs with a registry that holds a duplicate name.
C8_NoInvokeWithDuplicateNames ==
    \A c \in Invocations : pc[c] # "idle" => UniqueToolNames

\* The terminal states of a returned invocation, by what happened.
EndedFinal(c) ==
    /\ outputs[c] # <<>>
    /\ HasFinalMarker(outputs[c][Len(outputs[c])])

EndedLimit(c) ==
    /\ ModelCalls(c) = max_iterations
    /\ \A k \in 1..Len(outputs[c]) : ~HasFinalMarker(outputs[c][k])
    /\ Len(observations[c]) = max_iterations
    /\ result[c] = MaxIterationsMessage

EndedInvalid(c) ==
    /\ outputs[c] # <<>>
    /\ ~HasFinalMarker(outputs[c][Len(outputs[c])])
    /\ ~ActionMatch(outputs[c][Len(outputs[c])])
    /\ result[c] = InvalidOutputMessage

StartsFresh(c) ==
    /\ ModelCalls(c) >= 1 => prompts[c][1] = <<>>
    /\ (pc[c] = "loop" /\ ModelCalls(c) = 0) =>
          (intermediate_steps[c] = <<>> /\ i[c] = 0)

\* C9 as stated: every invocation starts with an empty scratchpad and
\* iteration counter 0, and a returned invocation is in one of exactly two
\* terminal states, FINAL or LIMIT_REACHED.
C9_Original ==
    \A c \in Invocations :
        /\ StartsFresh(c)
        /\ pc[c] = "returned" => (EndedFinal(c) \/ EndedLimit(c))

\* C9 amended: every invocation starts with an empty scratchpad and
\* iteration counter 0, and a returned invocation is in one of exactly
\* three terminal states: FINAL, LIMIT_REACHED, or INVALID_OUTPUT (the last
\* response held neither Final Answer: nor an Action: / Action Input: pair,
\* and the fixed failure string was returned).
C9_ThreeTerminalStates ==
    \A c \in Invocations :
        /\ StartsFresh(c)
        /\ pc[c] = "returned" =>
              \/ EndedFinal(c) /\ ~EndedLimit(c) /\ ~EndedInvalid(c)
              \/ EndedLimit(c) /\ ~EndedFinal(c) /\ ~EndedInvalid(c)
              \/ EndedInvalid(c) /\ ~EndedFinal(c) /\ ~EndedLimit(c)

\* C9 witness: an invocation that started with an empty scratchpad, made a
\* tool step and then returned on a response with neither marker.
C9_Witness ==
    /\ pc[1] = "returned"
    /\ EndedInvalid(1)
    /\ ModelCalls(1) >= 2
    /\ prompts[1][1] = <<>>
    /\ prompts[1][2] # <<>>

\* C10: with two invocations of one Executor interleaved (and invocations
\* following one another), the scratchpad of each invocation and every
\* scratchpad it rendered into a prompt hold only its own model outputs and
\* observations, each invocation counts its own iterations, and the fields
\* of the Executor stay as constructed.
C10_InvocationStateIsLocal ==
    /\ tools = constructed.tools
    /\ max_iterations = constructed.max_iterations
    /\ \A c \in Invocations :
          /\ intermediate_steps[c] =
                Transcript(outputs[c], observations[c], Len(observations[c]))
          /\ \A k \in 1..Len(prompts[c]) :
                prompts[c][k] = Transcript(outputs[c], observations[c], k - 1)
          /\ i[c] = Len(observations[c])
          /\ ModelCalls(c) \in {i[c], i[c] + 1}

\* C10 witness: both invocations are in progress, each past its first
\* observation, with different scratchpads.
C10_Witness ==
    /\ pc[1] = "parse"
    /\ pc[2] = "tool"
    /\ Len(observations[1]) >= 1
    /\ Len(observations[2]) >= 1
    /\ intermediate_steps[1] # intermediate_steps[2]

\* The text holds neither Final Answer: nor an Action: / Action Input: pair
\* the parser recognises.
Malformed(s) == ~HasFinalMarker(s) /\ ~ActionMatch(s)

\* The k-th response led to a tool run that raised.
ToolErrorStep(c, k) ==
    \E n \in RunsOfStep(c, k) : tool_runs[c][n].outcome.raised

\* C11 as stated: after a tool error, a tool-not-found or a malformed model
\* output, provided iterations remain, the Executor makes a further model
\* call; so a returned invocation has made a model call after it.
C11_Original ==
    \A c \in Invocations : \A k \in 1..Len(outputs[c]) :
        ( /\ pc[c] = "returned"
          /\ k < max_iterations
          /\ \/ ToolErrorStep(c, k)
             \/ UnknownToolStep(c, k)
             \/ Malformed(outputs[c][k]) )
        => ModelCalls(c) > k

\* C11 amended: a tool error and a tool-not-found are contained and fed back:
\* each becomes an observation and, provided iterations remain, the Executor
\* makes a further model call.  A malformed model output is not fed back: it
\* ends the invocation at once, with no further model call, and invoke
\* returns the fixed string "Agent failed to produce a valid action or final
\* answer.".
C11_ToolTroubleFedBackMalformedEnds ==
    \A c \in Invocations :
        /\ \A n \in 1..Len(tool_runs[c]) :
              Len(observations[c]) > tool_runs[c][n].at
        /\ \A k \in 1..Len(outputs[c]) :
              /\ ( /\ ToolErrorStep(c, k) \/ UnknownToolStep(c, k)
                   /\ k < Len(outputs[c]) \/ pc[c] \notin {"parse", "tool"}
                   /\ k < max_iterations )
                 => /\ Len(observations[c]) >= k
                    /\ ModelCalls(c) > k \/ pc[c] = "loop"
              /\ Malformed(outputs[c][k]) =>
                    /\ k = Len(outputs[c])
                    /\ ModelCalls(c) = k
                    /\ pc[c] \in {"parse", "returned"}
                    /\ pc[c] = "returned" => result[c] = InvalidOutputMessage

\* C11 witness: a tool raised, the model was called again, answered with a
\* malformed text, and the invocation has returned with iterations left.
C11_Witness ==
    /\ pc[1] = "returned"
    /\ Len(outputs[1]) = 2
    /\ max_iterations > 2
    /\ ToolErrorStep(1, 1)
    /\ Malformed(outputs[1][2])

\* The text after the Action Input: marker of the match, up to and not
\* including the next Observation: marker (or to the end), trimmed.
InputUpToObservation(s) ==
    LET rest == Tail_(s, ActionInputAt(s) + 2)
        obs  == {k \in 1..Len(rest) : rest[k] = "Observation:"}
    IN  IF obs = {} THEN Strip(rest)
        ELSE Strip(SubSeq(rest, 1, Min(obs) - 1))

\* C12: the action input handed to the tool is the text after Action Input:
\* up to, and not including, the next Observation: marker, or up to the end
\* of the model text when no such marker follows (trimmed).
C12_ActionInputStopsAtObservation ==
    \A c \in Invocations : \A n \in 1..Len(tool_runs[c]) :
        tool_runs[c][n].input =
            InputUpToObservation(outputs[c][tool_runs[c][n].at + 1])

\* C13: a chat-model call that fails is not retried: it is the last model
\* call of the invocation, no tool is run after it, and invoke ends by
\* raising (nothing is returned).
C13_FailedModelCallEndsInvocation ==
    \A c \in Invocations :
        /\ ModelCalls(c) - Len(outputs[c]) \in {0, 1}
        /\ ModelCalls(c) = Len(outputs[c]) + 1 =>
              /\ pc[c] = "raised"
              /\ result[c] = <<>>
              /\ exit[c] = "none"
              /\ \A n \in 1..Len(tool_runs[c]) :
                    tool_runs[c][n].at < Len(outputs[c])
              /\ Len(observations[c]) = Len(outputs[c])
        /\ pc[c] = "raised" => ModelCalls(c) = Len(outputs[c]) + 1

\* C13 witness: after a tool step, the second model call failed and the
\* invocation has raised with iterations left.
C13_Witness ==
    /\ pc[1] = "raised"
    /\ ModelCalls(1) = 2
    /\ Len(tool_runs[1]) = 1
    /\ max_iterations > 2

\* C14: max_iterations is positive in every constructed Executor (a value
\* <= 0 is refused at construction), so no invocation returns the
\* iteration-limit sentinel without having made at least one model call.
C14_SentinelOnlyAfterAModelCall ==
    \A c \in Invocations :
        (pc[c] = "returned" /\ result[c] = MaxIterationsMessage) =>
            (max_iterations > 0 /\ ModelCalls(c) >= 1)

\* ================================================================= memory
\* The conversational memories of src/src/my_framework/memory/types.py.
\* BaseMemory is a plain ABC: "chat_history: List[MessageType] = []" in a
\* class body is an attribute of the class, which every instance reads until
\* it is given an attribute of its own (clear assigns one).

\* memory_key: str = "history"
MemoryKey == "history"

\* k: int = 5
DefaultK == 5

HumanMessage(x)  == [role |-> "human",  content |-> x]
AIMessage(x)     == [role |-> "ai",     content |-> x]
SystemMessage(x) == [role |-> "system", content |-> x]

\* The inputs and outputs mappings of one turn, as their values in insertion
\* order.
Turns ==
    { [inputs |-> <<"h1">>,      outputs |-> <<"a1">>],
      [inputs |-> <<"h2", "x">>, outputs |-> <<"a2", "y">>] }

\* next(iter(d.values()))
FirstValue(d) == Head(d)

\* The summaries the chat model answers with.
SummaryTexts == { <<"s1">>, <<"s1", SP, "s2">> }

\* No Executor is in play.
AgentUnused ==
    /\ tools = <<>>
    /\ max_iterations = 0
    /\ constructed = [tools |-> tools, max_iterations |-> max_iterations]
    /\ InitInvocation

InitMemory ==
    /\ AgentUnused
    /\ memory_class \in {"buffer", "window", "summary"}
    /\ class_chat_history = <<>>
    /\ memory = [m \in MemoryObjects |-> NoMemory]
    /\ loaded = NoLoad
    /\ memory_log = [m \in MemoryObjects |-> NoLog]
    /\ memory_op = NoOp
    /\ AdapterUnused
    /\ RunnableUnused
    /\ JournalistUnused
    /\ WorkflowUnused

\* self.chat_history: the object's own attribute if it has one, else the
\* attribute of its class.
ChatHistory(m) ==
    IF memory[m].own THEN memory[m].chat_history ELSE class_chat_history

\* The list self.chat_history names becomes h (append and pop change the
\* list in place, whichever object it is an attribute of).
ChatHistoryBecomes(m, h) ==
    IF memory[m].own
    THEN /\ memory' = [memory EXCEPT ![m].chat_history = h]
         /\ UNCHANGED class_chat_history
    ELSE /\ class_chat_history' = h
         /\ UNCHANGED memory

\* while len(self.chat_history) > n: self.chat_history.pop(0)
PopWhileLonger(h, n) ==
    IF Len(h) > n THEN SubSeq(h, Len(h) - n + 1, Len(h)) ELSE h

\* h[-n:]  (h[-0:] is the whole list)
LastSlice(h, n) ==
    IF n = 0 \/ n >= Len(h) THEN h ELSE SubSeq(h, Len(h) - n + 1, Len(h))

\* The save_context calls made so far, on all objects.
TotalSaves == Len(memory_log[1].saved) + Len(memory_log[2].saved)

Logged(m, t) == [memory_log EXCEPT ![m].saved = Append(@, t)]

\* The values k is given: the default, or an assignment to the attribute.
WindowSizes == (0..MaxK) \cup {DefaultK}

\* A memory object is created (and, for a window, its k assigned).
NewMemory(m) ==
    /\ ~memory[m].created
    /\ \E k \in WindowSizes :
          /\ memory_class # "window" => k = DefaultK
          /\ memory' = [memory EXCEPT ![m] =
                           [NoMemory EXCEPT !.created = TRUE, !.k = k]]
    /\ memory_op' = [op |-> "new", obj |-> m]
    /\ loaded' = NoLoad
    /\ UNCHANGED <<outsideMemory, memory_class, class_chat_history,
                   memory_log>>

\* ConversationBufferMemory.load_memory_variables
BufferLoad(m) ==
    /\ memory_class = "buffer"
    /\ memory[m].created
    /\ loaded' =
          [key |-> MemoryKey, messages |-> ChatHistory(m)]
    /\ memory_op' = [op |-> "load", obj |-> m]
    /\ UNCHANGED <<outsideMemory, memory_class, class_chat_history, memory,
                   memory_log>>

\* ConversationBufferMemory.save_context
BufferSaveContext(m) ==
    /\ memory_class = "buffer"
    /\ memory[m].created
    /\ TotalSaves < MaxTurns
    /\ \E t \in Turns :
          LET user_input == FirstValue(t.inputs)
              ai_output  == FirstValue(t.outputs)
          IN  /\ ChatHistoryBecomes(m,
                    ChatHistory(m) \o <<HumanMessage(user_input),
                                        AIMessage(ai_output)>>)
              /\ memory_log' = Logged(m, t)
    /\ memory_op' = [op |-> "save", obj |-> m]
    /\ loaded' = NoLoad
    /\ UNCHANGED <<outsideMemory, memory_class>>

\* clear: self.chat_history = []  (the same in the buffer and the window)
Clear(m) ==
    /\ memory_class \in {"buffer", "window"}
    /\ memory[m].created
    /\ memory' = [memory EXCEPT ![m].own = TRUE, ![m].chat_history = <<>>]
    /\ memory_log' = [memory_log EXCEPT ![m].cleared = TRUE]
    /\ memory_op' = [op |-> "clear", obj |-> m]
    /\ loaded' = NoLoad
    /\ UNCHANGED <<outsideMemory, memory_class, class_chat_history>>

\* ConversationBufferWindowMemory.load_memory_variables
WindowLoad(m) ==
    /\ memory_class = "window"
    /\ memory[m].created
    /\ loaded' =
          [key |-> MemoryKey,
                      messages |-> LastSlice(ChatHistory(m), memory[m].k * 2)]
    /\ memory_op' = [op |-> "load", obj |-> m]
    /\ UNCHANGED <<outsideMemory, memory_class, class_chat_history, memory,
                   memory_log>>

\* ConversationBufferWindowMemory.save_context
WindowSaveContext(m) ==
    /\ memory_class = "window"
    /\ memory[m].created
    /\ TotalSaves < MaxTurns
    /\ \E t \in Turns :
          LET user_input == FirstValue(t.inputs)
              ai_output  == FirstValue(t.outputs)
          IN  /\ ChatHistoryBecomes(m,
                    PopWhileLonger(
                        ChatHistory(m) \o <<HumanMessage(user_input),
                                            AIMessage(ai_output)>>,
                        memory[m].k * 2))
              /\ memory_log' = Logged(m, t)
    /\ memory_op' = [op |-> "save", obj |-> m]
    /\ loaded' = NoLoad
    /\ UNCHANGED <<outsideMemory, memory_class>>

\* f"Human: {user_input}\nAI: {ai_output}"
NewLine(user_input, ai_output) ==
    <<"Human: ", user_input, NL, "AI: ", ai_output>>

\* The two messages save_context sends to the chat model.
SummaryPrompt(summary, new_line) ==
    << SystemMessage(<<"You are a helpful AI that summarizes conversations.">>),
       HumanMessage(
           <<"Please create a concise summary of the following conversation, ",
             "incorporating the new lines into the existing summary.",
             NL, NL, "Current Summary:", NL>>
           \o summary
           \o <<NL, NL, "New Lines:", NL>>
           \o new_line) >>

\* ConversationSummaryMemory.load_memory_variables
SummaryLoad(m) ==
    /\ memory_class = "summary"
    /\ memory[m].created
    /\ loaded' =
          [key |-> MemoryKey,
                      messages |-> <<SystemMessage(memory[m].summary)>>]
    /\ memory_op' = [op |-> "load", obj |-> m]
    /\ UNCHANGED <<outsideMemory, memory_class, class_chat_history, memory,
                   memory_log>>

\* save_context as it would be if the answer were added to the synopsis
\* instead of replacing it.
SummarySaveContextAppends(m) ==
    /\ memory_class = "summary"
    /\ memory[m].created
    /\ TotalSaves < MaxTurns
    /\ \E t \in Turns, r \in SummaryTexts :
          LET prompt == SummaryPrompt(memory[m].summary,
                            NewLine(FirstValue(t.inputs), FirstValue(t.outputs)))
          IN  /\ memory' = [memory EXCEPT ![m].summary = @ \o r]
              /\ memory_log' =
                    [memory_log EXCEPT
                        ![m].saved = Append(@, t),
                        ![m].llm_calls =
                            Append(@, [prompt |-> prompt, raised |-> FALSE,
                                       content |-> r])]
    /\ memory_op' = [op |-> "save", obj |-> m]
    /\ loaded' = NoLoad
    /\ UNCHANGED <<outsideMemory, memory_class, class_chat_history>>

\* ConversationSummaryMemory.save_context, the chat model answering.
SummarySaveContext(m) ==
    /\ memory_class = "summary"
    /\ memory[m].created
    /\ TotalSaves < MaxTurns
    /\ \E t \in Turns, r \in SummaryTexts :
          LET prompt == SummaryPrompt(memory[m].summary,
                            NewLine(FirstValue(t.inputs), FirstValue(t.outputs)))
          IN  /\ memory' = [memory EXCEPT ![m].summary = r]
              /\ memory_log' =
                    [memory_log EXCEPT
                        ![m].saved = Append(@, t),
                        ![m].llm_calls =
                            Append(@, [prompt |-> prompt, raised |-> FALSE,
                                       content |-> r])]
    /\ memory_op' = [op |-> "save", obj |-> m]
    /\ loaded' = NoLoad
    /\ UNCHANGED <<outsideMemory, memory_class, class_chat_history>>

\* ConversationSummaryMemory.save_context, the chat model call raising:
\* line 92 is not reached.
SummarySaveContextRaisesClears(m) ==
    /\ memory_class = "summary"
    /\ memory[m].created
    /\ TotalSaves < MaxTurns
    /\ \E t \in Turns :
          LET prompt == SummaryPrompt(memory[m].summary,
                            NewLine(FirstValue(t.inputs), FirstValue(t.outputs)))
          IN  memory_log' =
                    [memory_log EXCEPT
                        ![m].saved = Append(@, t),
                        ![m].llm_calls =
                            Append(@, [prompt |-> prompt, raised |-> TRUE,
                                       content |-> <<>>])]
    /\ memory' = [memory EXCEPT ![m].summary = <<>>]
    /\ memory_op' = [op |-> "save_raised", obj |-> m]
    /\ loaded' = NoLoad
    /\ UNCHANGED <<outsideMemory, memory_class, class_chat_history>>
SummarySaveContextRaises(m) ==
    /\ memory_class = "summary"
    /\ memory[m].created
    /\ TotalSaves < MaxTurns
    /\ \E t \in Turns :
          LET prompt == SummaryPrompt(memory[m].summary,
                            NewLine(FirstValue(t.inputs), FirstValue(t.outputs)))
          IN  memory_log' =
                    [memory_log EXCEPT
                        ![m].saved = Append(@, t),
                        ![m].llm_calls =
                            Append(@, [prompt |-> prompt, raised |-> TRUE,
                                       content |-> <<>>])]
    /\ memory_op' = [op |-> "save_raised", obj |-> m]
    /\ loaded' = NoLoad
    /\ UNCHANGED <<outsideMemory, memory_class, class_chat_history, memory>>

\* ConversationSummaryMemory.clear: self.summary = ""
SummaryClear(m) ==
    /\ memory_class = "summary"
    /\ memory[m].created
    /\ memory' = [memory EXCEPT ![m].summary = <<>>]
    /\ memory_log' = [memory_log EXCEPT ![m].cleared = TRUE]
    /\ memory_op' = [op |-> "clear", obj |-> m]
    /\ loaded' = NoLoad
    /\ UNCHANGED <<outsideMemory, memory_class, class_chat_history>>

NextMemory ==
    \E m \in MemoryObjects :
        \/ NewMemory(m)
        \/ BufferLoad(m)
        \/ BufferSaveContext(m)
        \/ Clear(m)
        \/ WindowLoad(m)
        \/ WindowSaveContext(m)
        \/ SummaryLoad(m)
        \/ SummarySaveContext(m)
        \/ SummarySaveContextRaises(m)
        \/ SummaryClear(m)

SpecMemory == InitMemory /\ [][NextMemory]_vars

\* ------------------------------------------------ vocabulary of memory
\* The messages of a sequence of turns: for each turn the human message
\* (first value of inputs) then the assistant message (first value of
\* outputs).
RECURSIVE MessagesOf(_)
MessagesOf(turns) ==
    IF turns = <<>> THEN <<>>
    ELSE <<HumanMessage(Head(Head(turns).inputs)),
           AIMessage(Head(Head(turns).outputs))>> \o MessagesOf(Tail(turns))

\* The last n of a sequence of turns (all of them if there are fewer).
LastTurns(turns, n) ==
    SubSeq(turns, Len(turns) - Min({n, Len(turns)}) + 1, Len(turns))

\* The last call was op, on object m.
LastOp(op, m) == memory_op = [op |-> op, obj |-> m]

\* Nothing but save_context and load_memory_variables was called on m since
\* it was created.
NeverCleared(m) == memory[m].created /\ ~memory_log[m].cleared

\* C15: a window memory with window k >= 0 holds at most 2*k messages after
\* every save_context, whatever saves and clears came before, and
\* load_memory_variables never returns more than 2*k messages.
C15_WindowNeverExceedsTwoK ==
    memory_class = "window" =>
        \A m \in MemoryObjects :
            /\ LastOp("save", m) => Len(ChatHistory(m)) <= 2 * memory[m].k
            /\ LastOp("load", m) => Len(loaded.messages) <= 2 * memory[m].k

\* C16: after n saved turns on a newly created window memory,
\* load_memory_variables returns exactly the messages of the last min(n, k)
\* turns in their original order, and nothing of older turns.
C16_WindowLoadsLastTurns ==
    memory_class = "window" =>
        \A m \in MemoryObjects :
            (LastOp("load", m) /\ NeverCleared(m)) =>
                loaded.messages =
                    MessagesOf(LastTurns(memory_log[m].saved,
                                         Min({Len(memory_log[m].saved),
                                              memory[m].k})))

\* C17: after n save_context calls on a newly created buffer memory with no
\* clear in between, load_memory_variables returns under the key "history"
\* exactly the 2*n messages of those turns, in call order, human before
\* assistant, none dropped and none merged.
C17_BufferLoadsEveryTurn ==
    memory_class = "buffer" =>
        \A m \in MemoryObjects :
            (LastOp("load", m) /\ NeverCleared(m)) =>
                /\ loaded.key = "history"
                /\ loaded.messages = MessagesOf(memory_log[m].saved)
                /\ Len(loaded.messages) = 2 * Len(memory_log[m].saved)

\* C18: the stored history of a memory object is its own: it starts empty
\* when the object is created and a step changes it only if the step is
\* save_context or clear on that same object (so neither a load nor a call
\* on another object of the class changes what the object will load).
C18_HistoryOwnedByObject ==
    [][\A m \in MemoryObjects :
          LET before == IF memory[m].created THEN ChatHistory(m) ELSE <<>>
          IN  (memory[m].created' /\ ChatHistory(m)' # before) =>
                  /\ memory_op'.obj = m
                  /\ memory_op'.op \in {"save", "clear"}]_vars

\* The last element of a non-empty sequence.
Last(q) == q[Len(q)]

\* C19: each save_context of a summary memory makes exactly one chat-model
\* call; the prompt of that call carries the synopsis as it stood and the new
\* human/assistant exchange; when the call returns, the stored synopsis is the
\* content it returned; and load_memory_variables returns exactly one system
\* message, whose content is the current synopsis.
C19_SummaryFoldsTurnWithOneCall ==
    [][memory_class = "summary" =>
        \A m \in MemoryObjects :
            /\ memory_log[m].saved' # memory_log[m].saved =>
                  /\ Len(memory_log[m].llm_calls') =
                         Len(memory_log[m].llm_calls) + 1
                  /\ LET call == Last(memory_log[m].llm_calls')
                         turn == Last(memory_log[m].saved')
                         sent == call.prompt[Len(call.prompt)].content
                     IN  /\ Contains(sent, <<"Current Summary:", NL>>
                                           \o memory[m].summary \o <<NL>>)
                         /\ Contains(sent, <<"Human: ", Head(turn.inputs), NL,
                                             "AI: ", Head(turn.outputs)>>)
                         /\ ~call.raised => memory[m].summary' = call.content
            /\ memory_log[m].saved' = memory_log[m].saved =>
                  memory_log[m].llm_calls' = memory_log[m].llm_calls
            /\ (memory_op'.op = "load" /\ memory_op'.obj = m) =>
                  /\ Len(loaded'.messages) = 1
                  /\ loaded'.messages[1] = SystemMessage(memory[m].summary')
    ]_vars

\* A second turn has been folded into a non-empty synopsis and the result
\* loaded.
C19_Witness ==
    /\ memory_class = "summary"
    /\ LastOp("load", 1)
    /\ Len(memory_log[1].llm_calls) >= 2
    /\ ~memory_log[1].llm_calls[1].raised
    /\ ~Last(memory_log[1].llm_calls).raised
    /\ ~memory_log[1].cleared
    /\ memory[1].summary = Last(memory_log[1].llm_calls).content
    /\ loaded.messages = <<SystemMessage(memory[1].summary)>>

\* ================================================================ adapter
\* ChatOpenAI.invoke of src/src/my_framework/models/openai.py.

\* What a caller puts in the list: a message object (attributes role and
\* content), a dict with the keys role and content, or anything else.
MessagePool ==
    { [shape |-> "object", role |-> "system", content |-> "be brief"],
      [shape |-> "dict",   role |-> "user",   content |-> "hi"],
      [shape |-> "other",  role |-> "",       content |-> "hi"] }

MessageLists == UNION {[1..n -> MessagePool] : n \in 0..MaxMessages}

\* The exceptions of the provider's client that stand for transport and
\* timeout failures and for a refused request.
ProviderErrors == {"APITimeoutError", "APIConnectionError", "RateLimitError"}

\* The contents the provider answers with.
ProviderContents == {"hello", "Error: upstream"}

\* hasattr(m, "role") and hasattr(m, "content"), or a dict with both keys
Supported(m) == m.shape \in {"object", "dict"}

\* {"role": ..., "content": ...}
Formatted(m) == [role |-> m.role, content |-> m.content]

\* No step of the adapter touches the Executor or the memories.
InitAdapter ==
    /\ AgentUnused
    /\ MemoryUnused
    /\ AdapterUnused
    /\ RunnableUnused
    /\ JournalistUnused
    /\ WorkflowUnused

\* invoke(messages) is called.
AdapterInvoke ==
    /\ adapter_pc \in {"idle", "returned", "raised"}
    /\ adapter_calls < MaxAdapterCalls
    /\ chat_messages' \in MessageLists
    /\ formatted' = <<>>
    /\ adapter_out' = NoOutcome
    /\ adapter_calls' = adapter_calls + 1
    /\ adapter_pc' = "format"
    /\ UNCHANGED <<outsideAdapter>>

\* One round of "for m in messages", m being of a supported shape.
FormatMessage ==
    /\ adapter_pc = "format"
    /\ Len(formatted) < Len(chat_messages)
    /\ Supported(chat_messages[Len(formatted) + 1])
    /\ formatted' = Append(formatted, Formatted(chat_messages[Len(formatted) + 1]))
    /\ UNCHANGED <<outsideAdapter, adapter_pc, chat_messages,
                   adapter_out, adapter_calls>>

\* raise ValueError(f"Unsupported message type: {m!r}")
FormatRaises ==
    /\ adapter_pc = "format"
    /\ Len(formatted) < Len(chat_messages)
    /\ ~Supported(chat_messages[Len(formatted) + 1])
    /\ adapter_out' = [kind |-> "raised", value |-> "ValueError"]
    /\ adapter_pc' = "raised"
    /\ UNCHANGED <<outsideAdapter, chat_messages, formatted,
                   adapter_calls>>

\* self.client.chat.completions.create(...) returns; invoke wraps the content
\* of the first choice.
CreateReturns ==
    /\ adapter_pc = "format"
    /\ Len(formatted) = Len(chat_messages)
    /\ \E content \in ProviderContents :
          adapter_out' = [kind |-> "returned", value |-> content]
    /\ adapter_pc' = "returned"
    /\ UNCHANGED <<outsideAdapter, chat_messages, formatted,
                   adapter_calls>>

\* self.client.chat.completions.create(...) raises: the call stands in no
\* try block, so the exception leaves invoke as it is.
CreateRaises ==
    /\ adapter_pc = "format"
    /\ Len(formatted) = Len(chat_messages)
    /\ \E e \in ProviderErrors :
          adapter_out' = [kind |-> "raised", value |-> e]
    /\ adapter_pc' = "raised"
    /\ UNCHANGED <<outsideAdapter, chat_messages, formatted,
                   adapter_calls>>

NextAdapter ==
    \/ AdapterInvoke
    \/ FormatMessage
    \/ FormatRaises
    \/ CreateReturns
    \/ CreateRaises

SpecAdapter == InitAdapter /\ [][NextAdapter]_vars

\* C20: no provider-specific exception leaves ChatOpenAI.invoke: whenever the
\* provider call fails, invoke either raises an error of the adapter's own or
\* returns a message whose content carries the error.
C20_NoProviderExceptionLeaks ==
    (adapter_pc = "raised" /\ adapter_out.kind = "raised") =>
        adapter_out.value \notin ProviderErrors

\* =============================================================== runnables
\* The composition protocol of my_framework.core.runnables: a Runnable is a
\* transform invoke(input) -> output without mutable state; a Sequence owns
\* an ordered list of children, a Parallel a mapping from key to child, and
\* Passthrough is the identity.

\* The inputs and outputs of the leaves.
Values == 0..2

Returned(v)        == [NoResult EXCEPT !.kind = "returned", !.value = v]
ReturnedMapping(d) == [NoResult EXCEPT !.kind = "returned", !.mapping = d]
Raised(e)          == [NoResult EXCEPT !.kind = "raised", !.error = e]

\* The leaves composed: two transforms that do not commute, the identity,
\* one that raises on one input and one that always raises.
Leaves == {"inc", "dbl", "passthrough", "picky", "boom"}

\* leaf.invoke(x), with a Passthrough that changes its input.
LeafInvokePassthroughChanges(leaf, x) ==
    CASE leaf = "inc"         -> Returned((x + 1) % 3)
      [] leaf = "dbl"         -> Returned((2 * x) % 3)
      [] leaf = "passthrough" -> Returned((x + 1) % 3)
      [] leaf = "picky"       -> IF x = 1 THEN Raised("Picky") ELSE Returned(x)
      [] leaf = "boom"        -> Raised("Boom")

\* leaf.invoke(x)
LeafInvoke(leaf, x) ==
    CASE leaf = "inc"         -> Returned((x + 1) % 3)
      [] leaf = "dbl"         -> Returned((2 * x) % 3)
      [] leaf = "passthrough" -> Returned(x)
      [] leaf = "picky"       -> IF x = 1 THEN Raised("Picky") ELSE Returned(x)
      [] leaf = "boom"        -> Raised("Boom")

\* The keys of a Parallel, in the order of the mapping.
BranchKeys == <<"a", "b">>

\* A | B | ...: the children in order.
Sequences ==
    UNION { [1..n -> {[key |-> "", leaf |-> l] : l \in Leaves}]
            : n \in 2..MaxStages }

\* {"a": R1, "b": R2}
Parallels ==
    { <<[key |-> BranchKeys[1], leaf |-> l1],
        [key |-> BranchKeys[2], leaf |-> l2]>> : l1 \in Leaves, l2 \in Leaves }

\* A composition has been built; compositions are never changed afterwards.
InitRunnable ==
    /\ AgentUnused
    /\ MemoryUnused
    /\ AdapterUnused
    /\ JournalistUnused
    /\ WorkflowUnused
    /\ \/ r_kind = "sequence" /\ r_children \in Sequences
       \/ r_kind = "parallel" /\ r_children \in Parallels
    /\ r_input = 0
    /\ r_pc = "idle"
    /\ r_value = 0
    /\ r_partial = {}
    /\ r_out = NoResult
    /\ r_calls = <<>>

\* invoke(x) on the composition.
RunnableInvoke ==
    /\ r_pc \in {"idle", "returned", "raised"}
    /\ r_input' \in Values
    /\ r_value' = r_input'
    /\ r_partial' = {}
    /\ r_out' = NoResult
    /\ r_calls' = <<>>
    /\ r_pc' = "running"
    /\ UNCHANGED <<outsideRunnable, r_kind, r_children>>

\* The child invoke that a step makes: child number, its input, its outcome.
ChildCall(j, x) ==
    [child |-> j, key |-> r_children[j].key, input |-> x,
     outcome |-> LeafInvoke(r_children[j].leaf, x)]

\* A stage as it would be if every stage were given the original input.
StageReturnsGivenOriginalInput ==
    /\ r_kind = "sequence"
    /\ r_pc = "running"
    /\ Len(r_calls) < Len(r_children)
    /\ LET call == ChildCall(Len(r_calls) + 1, r_input)
       IN  /\ call.outcome.kind = "returned"
           /\ r_value' = call.outcome.value
           /\ r_calls' = Append(r_calls, call)
    /\ UNCHANGED <<outsideRunnable, r_kind, r_children, r_input, r_pc,
                   r_partial, r_out>>

\* Sequence: the next stage is invoked on the previous stage's output and
\* returns.
StageReturns ==
    /\ r_kind = "sequence"
    /\ r_pc = "running"
    /\ Len(r_calls) < Len(r_children)
    /\ LET call == ChildCall(Len(r_calls) + 1, r_value)
       IN  /\ call.outcome.kind = "returned"
           /\ r_value' = call.outcome.value
           /\ r_calls' = Append(r_calls, call)
    /\ UNCHANGED <<outsideRunnable, r_kind, r_children, r_input, r_pc,
                   r_partial, r_out>>

\* Sequence: the next stage raises; the exception leaves invoke unchanged.
StageRaises ==
    /\ r_kind = "sequence"
    /\ r_pc = "running"
    /\ Len(r_calls) < Len(r_children)
    /\ LET call == ChildCall(Len(r_calls) + 1, r_value)
       IN  /\ call.outcome.kind = "raised"
           /\ r_calls' = Append(r_calls, call)
           /\ r_out' = call.outcome
    /\ r_pc' = "raised"
    /\ UNCHANGED <<outsideRunnable, r_kind, r_children, r_input, r_value,
                   r_partial>>

\* Sequence: the last stage's output is returned.
SequenceReturns ==
    /\ r_kind = "sequence"
    /\ r_pc = "running"
    /\ Len(r_calls) = Len(r_children)
    /\ r_out' = Returned(r_value)
    /\ r_pc' = "returned"
    /\ UNCHANGED <<outsideRunnable, r_kind, r_children, r_input, r_value,
                   r_partial, r_calls>>

\* The branches of a Parallel that have been evaluated.
Evaluated == {r_calls[n].child : n \in 1..Len(r_calls)}

\* A branch as it would be if it were given the output of the branch
\* evaluated before it.
BranchReturnsChained(j) ==
    /\ r_kind = "parallel"
    /\ r_pc = "running"
    /\ j \notin Evaluated
    /\ LET call == ChildCall(j, r_value)
       IN  /\ call.outcome.kind = "returned"
           /\ r_partial' = r_partial \cup {<<call.key, call.outcome.value>>}
           /\ r_value' = call.outcome.value
           /\ r_calls' = Append(r_calls, call)
    /\ UNCHANGED <<outsideRunnable, r_kind, r_children, r_input, r_pc, r_out>>

\* Parallel: a branch not yet evaluated is invoked on the input of the
\* composition and returns (the order of the branches is the
\* implementation's).
BranchReturns(j) ==
    /\ r_kind = "parallel"
    /\ r_pc = "running"
    /\ j \notin Evaluated
    /\ LET call == ChildCall(j, r_input)
       IN  /\ call.outcome.kind = "returned"
           /\ r_partial' = r_partial \cup {<<call.key, call.outcome.value>>}
           /\ r_calls' = Append(r_calls, call)
    /\ UNCHANGED <<outsideRunnable, r_kind, r_children, r_input, r_pc,
                   r_value, r_out>>

\* Parallel: a branch raises; the exception leaves invoke unchanged.
BranchRaises(j) ==
    /\ r_kind = "parallel"
    /\ r_pc = "running"
    /\ j \notin Evaluated
    /\ LET call == ChildCall(j, r_input)
       IN  /\ call.outcome.kind = "raised"
           /\ r_calls' = Append(r_calls, call)
           /\ r_out' = call.outcome
    /\ r_pc' = "raised"
    /\ UNCHANGED <<outsideRunnable, r_kind, r_children, r_input, r_value,
                   r_partial>>

\* Parallel: every branch has returned; the merged mapping is returned.
ParallelReturns ==
    /\ r_kind = "parallel"
    /\ r_pc = "running"
    /\ Evaluated = 1..Len(r_children)
    /\ r_out' = ReturnedMapping(r_partial)
    /\ r_pc' = "returned"
    /\ UNCHANGED <<outsideRunnable, r_kind, r_children, r_input, r_value,
                   r_partial, r_calls>>

NextRunnable ==
    \/ RunnableInvoke
    \/ StageReturns
    \/ StageRaises
    \/ SequenceReturns
    \/ \E j \in 1..Len(r_children) : BranchReturns(j)
    \/ \E j \in 1..Len(r_children) : BranchRaises(j)
    \/ ParallelReturns

SpecRunnable == InitRunnable /\ [][NextRunnable]_vars

\* C.invoke(B.invoke(A.invoke(x))): the children applied in order, each to
\* the output of the one before, an exception ending the application.
RECURSIVE Nested(_, _)
Nested(children, x) ==
    IF children = <<>> THEN Returned(x)
    ELSE LET o == LeafInvoke(Head(children).leaf, x)
         IN  IF o.kind = "raised" THEN o ELSE Nested(Tail(children), o.value)

\* C21: a Sequence invokes each stage once, in order, each on the output of
\* the stage before it (the first on x), and returns the output of the last,
\* which is C.invoke(B.invoke(A.invoke(x))); if a stage raises, no later stage
\* is invoked, nothing is returned and that same exception reaches the
\* caller.
C21_SequenceFeedsStagesInOrder ==
    r_kind = "sequence" =>
        /\ \A n \in 1..Len(r_calls) :
              /\ r_calls[n].child = n
              /\ r_calls[n].input =
                     IF n = 1 THEN r_input ELSE r_calls[n - 1].outcome.value
              /\ n < Len(r_calls) => r_calls[n].outcome.kind = "returned"
        /\ r_pc = "returned" =>
              /\ Len(r_calls) = Len(r_children)
              /\ r_out.kind = "returned"
              /\ r_out = Nested(r_children, r_input)
        /\ r_pc = "raised" =>
              /\ r_calls # <<>>
              /\ r_calls[Len(r_calls)].outcome.kind = "raised"
              /\ r_out = r_calls[Len(r_calls)].outcome
              /\ r_out = Nested(r_children, r_input)
        /\ r_pc = "running" => r_out = NoResult

\* Three stages have run, the second on an output that differs from x.
C21_Witness ==
    /\ r_kind = "sequence"
    /\ r_pc = "returned"
    /\ Len(r_calls) = 3
    /\ r_calls[2].input # r_input
    /\ r_calls[3].input # r_calls[2].input
    /\ r_out.value = r_calls[3].outcome.value

\* The keys of a mapping held as a set of key/value pairs.
Keys(d) == {pair[1] : pair \in d}

\* C22: {"a": R1, "b": R2}.invoke(x) applies every branch to the same input
\* x and returns a mapping with exactly the keys "a" and "b" whose values
\* are R1.invoke(x) and R2.invoke(x), in whatever order the branches were
\* evaluated.
C22_ParallelAppliesEachBranchToInput ==
    r_kind = "parallel" =>
        /\ \A n \in 1..Len(r_calls) : r_calls[n].input = r_input
        /\ r_pc = "returned" =>
              /\ r_out.kind = "returned"
              /\ Keys(r_out.mapping) = {"a", "b"}
              /\ Cardinality(r_out.mapping) = 2
              /\ \A j \in 1..Len(r_children) :
                    <<r_children[j].key,
                      LeafInvoke(r_children[j].leaf, r_input).value>>
                        \in r_out.mapping

\* The branch "b" was evaluated before the branch "a", the two giving
\* different values, none of them x.
C22_Witness ==
    /\ r_kind = "parallel"
    /\ r_pc = "returned"
    /\ Len(r_calls) = 2
    /\ r_calls[1].key = "b"
    /\ r_calls[1].outcome.value # r_calls[2].outcome.value
    /\ r_calls[1].outcome.value # r_input
    /\ r_calls[2].outcome.value # r_input

\* The composition invoked is A | Passthrough | C.
AroundPassthrough ==
    /\ r_kind = "sequence"
    /\ Len(r_children) = 3
    /\ r_children[2].leaf = "passthrough"

\* C23: for all A, C and x, what invoke(x) of A | Passthrough | C returns (or
\* raises) is what invoke(x) of A | C returns (or raises).
C23_PassthroughStageEliminated ==
    (AroundPassthrough /\ r_pc \in {"returned", "raised"}) =>
        r_out = Nested(<<r_children[1], r_children[3]>>, r_input)

\* A | Passthrough | C has returned, A and C both changing their input.
C23_Witness ==
    /\ AroundPassthrough
    /\ r_pc = "returned"
    /\ r_children[1].leaf = "inc"
    /\ r_children[3].leaf = "dbl"
    /\ r_calls[2].input = r_calls[2].outcome.value
    /\ r_out.value # r_input

\* ================================================================== JSON
\* Texts are sequences of tokens: the characters JSON gives a meaning to,
\* white space, the back quote and the typographic quotes that safe_load_json
\* rewrites, and words (runs of characters none of the functions below tells
\* apart). The word "error" stands for an occurrence of those five letters.
LB   == "{"
RB   == "}"
LSB  == "["
RSB  == "]"
QT   == "\""
CL   == ":"
CM   == ","
BT   == "backquote"
LDQ  == "ldquo"
RDQ  == "rdquo"
RSQ  == "rsquo"
APOS == "apostrophe"

\* The values json.loads gives and json.dumps takes: a string, a list of
\* strings, or an object whose values are strings and lists of strings
\* (dict keeps the order of insertion).
JStr(c)  == [type |-> "str",  chars |-> c,    items |-> <<>>, pairs |-> <<>>]
JList(l) == [type |-> "list", chars |-> <<>>, items |-> l,    pairs |-> <<>>]
JObj(ps) == [type |-> "obj",  chars |-> <<>>, items |-> <<>>, pairs |-> ps]

\* A parse that raised.
Fail == [ok |-> FALSE, value |-> JStr(<<>>), next |-> 0]
Parsed(v, n) == [ok |-> TRUE, value |-> v, next |-> n]

\* The first position from p on that holds no white space.
SkipWS(t, p) ==
    LET stops == {q \in p..Len(t) : t[q] \notin WS}
    IN  IF stops = {} THEN Len(t) + 1 ELSE Min(stops)

\* A string literal at p: up to the next quote (the texts hold no escapes),
\* a raw newline inside being an error.
ParseString(t, p) ==
    IF p > Len(t) \/ t[p] # QT THEN Fail
    ELSE LET ends == {q \in (p + 1)..Len(t) : t[q] = QT}
         IN  IF ends = {} THEN Fail
             ELSE LET q == Min(ends)
                      body == SubSeq(t, p + 1, q - 1)
                  IN  IF \E n \in 1..Len(body) : body[n] = NL THEN Fail
                      ELSE Parsed(JStr(body), q + 1)

\* The items of a list from p on, p holding the first of them.
RECURSIVE ParseItems(_, _, _)
ParseItems(t, p, acc) ==
    LET item == ParseString(t, p)
    IN  IF ~item.ok THEN Fail
        ELSE LET q == SkipWS(t, item.next)
                 items == Append(acc, item.value.chars)
             IN  IF q > Len(t) THEN Fail
                 ELSE IF t[q] = RSB THEN Parsed(JList(items), q + 1)
                 ELSE IF t[q] = CM THEN ParseItems(t, SkipWS(t, q + 1), items)
                 ELSE Fail

\* A value of an object at p: a string or a list of strings.
ParseValue(t, p) ==
    IF p > Len(t) THEN Fail
    ELSE IF t[p] = QT THEN ParseString(t, p)
    ELSE IF t[p] = LSB
         THEN LET q == SkipWS(t, p + 1)
              IN  IF q > Len(t) THEN Fail
                  ELSE IF t[q] = RSB THEN Parsed(JList(<<>>), q + 1)
                  ELSE ParseItems(t, q, <<>>)
    ELSE Fail

\* The pairs of an object from p on, p holding the first key.
RECURSIVE ParsePairs(_, _, _)
ParsePairs(t, p, acc) ==
    LET key == ParseString(t, p)
    IN  IF ~key.ok THEN Fail
        ELSE LET q == SkipWS(t, key.next)
             IN  IF q > Len(t) \/ t[q] # CL THEN Fail
                 ELSE LET v == ParseValue(t, SkipWS(t, q + 1))
                      IN  IF ~v.ok THEN Fail
                          ELSE LET r == SkipWS(t, v.next)
                                   pairs == Append(acc, [key |-> key.value.chars,
                                                         value |-> v.value])
                               IN  IF r > Len(t) THEN Fail
                                   ELSE IF t[r] = RB THEN Parsed(JObj(pairs), r + 1)
                                   ELSE IF t[r] = CM
                                        THEN ParsePairs(t, SkipWS(t, r + 1), pairs)
                                   ELSE Fail

\* json.loads(t): one value, white space around it, nothing after it.
Loads(t) ==
    LET p == SkipWS(t, 1)
        v == IF p > Len(t) THEN Fail
             ELSE IF t[p] = LB
                  THEN LET q == SkipWS(t, p + 1)
                       IN  IF q > Len(t) THEN Fail
                           ELSE IF t[q] = RB THEN Parsed(JObj(<<>>), q + 1)
                           ELSE ParsePairs(t, q, <<>>)
             ELSE ParseValue(t, p)
    IN  IF v.ok /\ SkipWS(t, v.next) = Len(t) + 1 THEN v ELSE Fail

\* ", ".join of the items, each in quotes
RECURSIVE JoinItems(_)
JoinItems(items) ==
    IF items = <<>> THEN <<>>
    ELSE <<QT>> \o Head(items) \o <<QT>>
         \o (IF Len(items) = 1 THEN <<>> ELSE <<CM, SP>> \o JoinItems(Tail(items)))

DumpsValue(v) ==
    IF v.type = "str" THEN <<QT>> \o v.chars \o <<QT>>
    ELSE <<LSB>> \o JoinItems(v.items) \o <<RSB>>

\* ", ".join of the pairs, each '"key": value'
RECURSIVE JoinPairs(_)
JoinPairs(pairs) ==
    IF pairs = <<>> THEN <<>>
    ELSE <<QT>> \o Head(pairs).key \o <<QT, CL, SP>> \o DumpsValue(Head(pairs).value)
         \o (IF Len(pairs) = 1 THEN <<>> ELSE <<CM, SP>> \o JoinPairs(Tail(pairs)))

\* json.dumps(v), of a value whose strings need no escape.
Dumps(v) ==
    IF v.type = "obj" THEN <<LB>> \o JoinPairs(v.pairs) \o <<RB>>
    ELSE DumpsValue(v)

\* Opening braces less closing braces in text[from..to].
Depth(text, from, to) ==
    Cardinality({n \in from..to : text[n] = LB})
        - Cardinality({n \in from..to : text[n] = RB})

NoBlock == [found |-> FALSE, block |-> <<>>]

\* extract_first_json_block: from the first "{" to the "}" that brings the
\* count of braces back to zero, braces inside string literals counted too.
ExtractFirstJsonBlock(text) ==
    LET opens == {n \in 1..Len(text) : text[n] = LB}
    IN  IF opens = {} THEN NoBlock
        ELSE LET start == Min(opens)
                 closes == {n \in start..Len(text) : Depth(text, start, n) = 0}
             IN  IF closes = {} THEN NoBlock
                 ELSE [found |-> TRUE, block |-> SubSeq(text, start, Min(closes))]

\* .replace of the typographic quotes, and of the back quote by nothing
RECURSIVE Cleaned(_)
Cleaned(block) ==
    IF block = <<>> THEN <<>>
    ELSE LET c == Head(block)
         IN  (IF c \in {LDQ, RDQ} THEN <<QT>>
              ELSE IF c = RSQ THEN <<APOS>>
              ELSE IF c = BT THEN <<>>
              ELSE <<c>>) \o Cleaned(Tail(block))

\* safe_load_json: the text itself if it parses, else its first block of
\* braces, cleaned; Fail for the two ways it raises.
SafeLoadJson(maybe_json) ==
    LET direct == Loads(maybe_json)
        first  == ExtractFirstJsonBlock(maybe_json)
    IN  IF direct.ok THEN direct
        ELSE IF ~first.found THEN Fail
        ELSE Loads(Cleaned(first.block))

\* s.split(",")
RECURSIVE Split(_)
Split(chars) ==
    LET commas == {n \in 1..Len(chars) : chars[n] = CM}
    IN  IF commas = {} THEN <<chars>>
        ELSE <<SubSeq(chars, 1, Min(commas) - 1)>>
             \o Split(SubSeq(chars, Min(commas) + 1, Len(chars)))

\* [s.strip() for s in ... if s.strip()]
RECURSIVE StripEach(_)
StripEach(parts) ==
    IF parts = <<>> THEN <<>>
    ELSE (IF Strip(Head(parts)) = <<>> THEN <<>> ELSE <<Strip(Head(parts))>>)
         \o StripEach(Tail(parts))

\* normalize_article, on a dict: seo_keywords and hashtags given as one
\* string become lists.
NormalizeArticle(doc) ==
    JObj([n \in 1..Len(doc.pairs) |->
            LET pair == doc.pairs[n]
            IN  IF pair.key \in {<<"seo_keywords">>, <<"hashtags">>}
                   /\ pair.value.type = "str"
                THEN [pair EXCEPT !.value = JList(StripEach(Split(pair.value.chars)))]
                ELSE pair])

\* ============================================================= journalist
\* generate_article_and_metadata of src/src/my_framework/apps/journalist.py.

\* "error" in text
InText(text) == \E n \in 1..Len(text) : text[n] = "error"

\* json.dumps({"error": message})
ErrorPayload(message) ==
    Dumps(JObj(<<[key |-> <<"error">>, value |-> JStr(message)]>>))

\* ```json\n...\n```
Fenced(text) == <<BT, BT, BT, "json", NL>> \o text \o <<NL, BT, BT, BT>>

\* What scrape_content returns: the text of the page, or an error payload.
ScrapeOutputs ==
    { <<"markets", SP, "rose">>,
      <<"rates", SP, "were", SP, "cut">>,
      <<"exports", NL, NL, "fell">>,
      <<"margin", SP, "of", SP, "error">>,
      ErrorPayload(<<"URL scraping failed: No paragraph content found.">>) }

\* What the chat model answers to the draft and to the revision prompt.
DraftOutputs ==
    { <<"draft">>, <<"a", SP, "longer", SP, "draft">>, <<"human", SP, "error">> }
RevisedOutputs ==
    { <<"revised">>, <<"revised", SP, "twice">>,
      <<"no", SP, "error", SP, "found">> }

\* Article objects a metadata stage may hand back.
Payloads ==
    { JObj(<<[key |-> <<"title">>, value |-> JStr(<<"Test", SP, "Title">>)],
             [key |-> <<"seo_keywords">>, value |-> JList(<< <<"key1">>, <<"key2">> >>)]>>),
      JObj(<<[key |-> <<"title">>, value |-> JStr(<<"Test", SP, "Title">>)],
             [key |-> <<"body">>, value |-> JStr(<<"<p>Body</p>">>)],
             [key |-> <<"seo_description">>, value |-> JStr(<<"Description">>)],
             [key |-> <<"seo_keywords">>, value |-> JStr(<<"key1", CM, SP, "key2">>)],
             [key |-> <<"hashtags">>, value |-> JList(<< <<"#tag">> >>)]>>),
      JObj(<<[key |-> <<"title">>, value |-> JStr(<<"a", RB, "b">>)]>>),
      JObj(<<[key |-> <<"body">>, value |-> JStr(<<"use", SP, BT, "x", BT>>)]>>),
      JObj(<<[key |-> <<"title">>, value |-> JStr(<<"trial", SP, "and", SP, "error">>)]>>),
      JObj(<<[key |-> <<"hashtags">>, value |-> JStr(<<"#a", CM, "#b">>)]>>) }

\* What get_seo_metadata returns (or, in the repository's test, its
\* replacement): an object as JSON, bare or in a code fence, or an error
\* payload.
MetadataOutputs ==
    {Dumps(payload) : payload \in Payloads}
        \cup {Fenced(Dumps(payload)) : payload \in Payloads}
        \cup {ErrorPayload(<<"Failed to generate main metadata: timeout">>)}

\* Lines 53-58: the metadata parsed, normalised and written again; the text
\* as it was if any of that raises (normalize_article raises on what is not
\* a dict).
Renormalised(text) ==
    LET parsed == SafeLoadJson(text)
    IN  IF parsed.ok /\ parsed.value.type = "obj"
        THEN Dumps(NormalizeArticle(parsed.value))
        ELSE text

ToolReturned(text) == [kind |-> "returned", text |-> text]
ToolRaised(e)      == [kind |-> "raised", text |-> <<e>>]

InitJournalist ==
    /\ AgentUnused
    /\ MemoryUnused
    /\ AdapterUnused
    /\ RunnableUnused
    /\ JournalistUnused
    /\ WorkflowUnused

\* generate_article_and_metadata.run(...) is called.
GenerateInvoke ==
    /\ j_pc = "idle"
    /\ j_pc' = "scrape"
    /\ UNCHANGED <<outsideJournalist, source_content, draft_article,
                   revised_article, final_json_string, j_out, j_calls>>

\* Lines 34-36: scrape_content, which raises nothing.
ScrapeStage ==
    /\ j_pc = "scrape"
    /\ source_content' \in ScrapeOutputs
    /\ j_calls' = Append(j_calls, "scrape")
    /\ IF InText(source_content')
       THEN j_pc' = "returned" /\ j_out' = ToolReturned(source_content')
       ELSE j_pc' = "draft" /\ UNCHANGED j_out
    /\ UNCHANGED <<outsideJournalist, draft_article, revised_article,
                   final_json_string>>

\* Lines 40-42: get_initial_draft returns.
DraftStage ==
    /\ j_pc = "draft"
    /\ draft_article' \in DraftOutputs
    /\ j_calls' = Append(j_calls, "draft")
    /\ IF InText(draft_article')
       THEN j_pc' = "returned" /\ j_out' = ToolReturned(draft_article')
       ELSE j_pc' = "revise" /\ UNCHANGED j_out
    /\ UNCHANGED <<outsideJournalist, source_content, revised_article,
                   final_json_string>>

\* Line 40: the chat model call of get_initial_draft raises.
DraftRaises ==
    /\ j_pc = "draft"
    /\ j_calls' = Append(j_calls, "draft")
    /\ j_out' = ToolRaised("APITimeoutError")
    /\ j_pc' = "raised"
    /\ UNCHANGED <<outsideJournalist, source_content, draft_article,
                   revised_article, final_json_string>>

\* Lines 44-46: get_revised_article returns.
ReviseStage ==
    /\ j_pc = "revise"
    /\ revised_article' \in RevisedOutputs
    /\ j_calls' = Append(j_calls, "revise")
    /\ IF InText(revised_article')
       THEN j_pc' = "returned" /\ j_out' = ToolReturned(revised_article')
       ELSE j_pc' = "metadata" /\ UNCHANGED j_out
    /\ UNCHANGED <<outsideJournalist, source_content, draft_article,
                   final_json_string>>

\* Line 44: the chat model call of get_revised_article raises.
ReviseRaises ==
    /\ j_pc = "revise"
    /\ j_calls' = Append(j_calls, "revise")
    /\ j_out' = ToolRaised("APITimeoutError")
    /\ j_pc' = "raised"
    /\ UNCHANGED <<outsideJournalist, source_content, draft_article,
                   revised_article, final_json_string>>

\* Lines 48-61: get_seo_metadata, which catches what its calls raise; then
\* the result normalised and returned.
MetadataStage ==
    /\ j_pc = "metadata"
    /\ final_json_string' \in MetadataOutputs
    /\ j_calls' = Append(j_calls, "metadata")
    /\ j_out' = IF InText(final_json_string')
                THEN ToolReturned(final_json_string')
                ELSE ToolReturned(Renormalised(final_json_string'))
    /\ j_pc' = "returned"
    /\ UNCHANGED <<outsideJournalist, source_content, draft_article,
                   revised_article>>

NextJournalist ==
    \/ GenerateInvoke
    \/ ScrapeStage
    \/ DraftStage
    \/ DraftRaises
    \/ ReviseStage
    \/ ReviseRaises
    \/ MetadataStage

SpecJournalist == InitJournalist /\ [][NextJournalist]_vars

\* The order in which the stages stand in generate_article_and_metadata.
StageOrder == <<"scrape", "draft", "revise", "metadata">>

\* A text that is strict JSON of an object with the key "error".
IsErrorPayload(text) ==
    LET parsed == Loads(text)
    IN  /\ parsed.ok
        /\ parsed.value.type = "obj"
        /\ \E n \in 1..Len(parsed.value.pairs) :
               parsed.value.pairs[n].key = <<"error">>

\* C24: when scraping, drafting and revision succeeded and the metadata stage
\* returned a JSON object inside a Markdown code fence, the tool returns a
\* strict-JSON string whose parsed value is exactly the object that stood
\* inside the fence.
C24_FencedObjectReturnedUnchanged ==
    (j_pc = "returned" /\ j_calls = StageOrder) =>
        \A payload \in Payloads :
            final_json_string = Fenced(Dumps(payload)) =>
                /\ Loads(j_out.text).ok
                /\ Loads(j_out.text).value = payload

\* C29: the stages run in the order scrape, draft, revise, metadata, each at
\* most once, and the tool returns before the metadata stage only with the
\* error payload of the stage that failed.
C29_EarlyReturnOnlyOnFailure ==
    /\ j_calls = SubSeq(StageOrder, 1, Len(j_calls))
    /\ (j_pc = "returned" /\ Len(j_calls) < Len(StageOrder)) =>
           IsErrorPayload(j_out.text)

\* C25: every model response holding neither Final Answer: nor an Action: /
\* Action Input: pair ends the invocation the same way on every iteration and
\* for every scratchpad: invoke returns the one fixed failure string, never the
\* raw model text.
C25_MalformedPolicyUniform ==
    \A c \in Invocations : \A k \in 1..Len(outputs[c]) :
        (pc[c] = "returned" /\ Malformed(outputs[c][k])) =>
            /\ exit[c] = "invalid"
            /\ result[c] = InvalidOutputMessage
            /\ result[c] # outputs[c][k]
            /\ result[c] # Strip(outputs[c][k])

\* C25 witness: a malformed response on a later iteration, with a scratchpad
\* that is no longer empty, has ended the invocation.
C25_Witness ==
    /\ pc[1] = "returned"
    /\ Len(outputs[1]) >= 2
    /\ Malformed(outputs[1][Len(outputs[1])])
    /\ prompts[1][Len(outputs[1])] # <<>>
    /\ i[1] >= 1

\* C26: within one invocation the scratchpad is append-only: the scratchpad
\* rendered for model call k+1 is the scratchpad of call k followed by call
\* k's raw output, a newline, "Observation: ", the observation and a newline;
\* and the user input, the tool catalogue and the tool-name list rendered into
\* the prompt are the same at every call.
C26_ScratchpadAppendOnlyPromptStable ==
    \A c \in Invocations :
        /\ Len(rendered[c]) = Len(prompts[c])
        /\ \A k \in 1..Len(rendered[c]) :
              rendered[c][k].input = user_query[c]
        /\ \A k \in 1..(Len(prompts[c]) - 1) :
              /\ k <= Len(outputs[c])
              /\ k <= Len(observations[c])
              /\ prompts[c][k + 1] =
                    prompts[c][k] \o outputs[c][k] \o <<NL, OBS, SP>>
                        \o observations[c][k] \o <<NL>>
              /\ rendered[c][k + 1] = rendered[c][k]

\* C26 witness: a third model call of an invocation with a user input and two
\* registered tools, after two different responses and observations.
C26_Witness ==
    /\ Len(prompts[1]) = 3
    /\ Len(tools) = 2
    /\ user_query[1] # <<>>
    /\ outputs[1][1] # outputs[1][2]
    /\ observations[1][1] # observations[1][2]

\* The line the scratchpad holds for the observation of the n-th tool call.
ObservationOfRun(c, n) ==
    <<NL, OBS, SP>> \o observations[c][tool_runs[c][n].at + 1] \o <<NL>>

\* The text s ends with the text suffix.
EndsWith(s, suffix) ==
    /\ Len(s) >= Len(suffix)
    /\ SubSeq(s, Len(s) - Len(suffix) + 1, Len(s)) = suffix

\* The model call that followed the n-th tool call saw its observation: the
\* scratchpad rendered for that call ends with it.
SeenByModel(c, n) ==
    /\ ModelCalls(c) >= tool_runs[c][n].at + 2
    /\ EndsWith(prompts[c][tool_runs[c][n].at + 2], ObservationOfRun(c, n))

\* C28 as stated: every tool call made during an invocation is followed by a
\* later model call of the same invocation whose scratchpad contains that
\* call's observation, also on the last permitted iteration.
C28_Original ==
    \A c \in Invocations : \A n \in 1..Len(tool_runs[c]) :
        pc[c] \in {"returned", "raised"} => SeenByModel(c, n)

\* C28 amended: a tool call made before the last permitted iteration is
\* followed by a model call whose scratchpad contains its observation; a tool
\* call made on the last permitted iteration is executed and its observation
\* appended to the scratchpad, but no model call follows: the invocation
\* returns the iteration-limit string.
C28_ToolResultSeenUnlessLastIteration ==
    \A c \in Invocations : \A n \in 1..Len(tool_runs[c]) :
        LET at == tool_runs[c][n].at
        IN  /\ Len(observations[c]) > at
            /\ at + 1 = Len(observations[c]) =>
                   EndsWith(intermediate_steps[c], ObservationOfRun(c, n))
            /\ at + 1 < max_iterations =>
                   \/ pc[c] = "loop" /\ ModelCalls(c) = at + 1
                   \/ SeenByModel(c, n)
            /\ at + 1 >= max_iterations =>
                   /\ ModelCalls(c) = max_iterations
                   /\ pc[c] \in {"loop", "returned"}
                   /\ pc[c] = "returned" =>
                          result[c] = MaxIterationsMessage

\* C28 witness: two tool calls, the second on the last permitted iteration;
\* the model saw the first observation and the invocation has returned.
C28_Witness ==
    /\ pc[1] = "returned"
    /\ max_iterations = 2
    /\ Len(tool_runs[1]) = 2
    /\ SeenByModel(1, 1)
    /\ ~SeenByModel(1, 2)

\* ============================================================ the workflow
\* journalist_workflow of src/my_framework/app/server.py ("direct") and of
\* src/app/server.py ("tabbed"): three article slots, each produced by a
\* tool and then handed to post_article_to_cms.

\* for i in range(1, 4)
LastSlot == 3

\* Which fields of an article slot the request fills in.
SlotConfigs ==
    { [source_url |-> TRUE,  prompt |-> TRUE,  article_text |-> TRUE],
      [source_url |-> TRUE,  prompt |-> FALSE, article_text |-> FALSE],
      [source_url |-> FALSE, prompt |-> TRUE,  article_text |-> TRUE],
      EmptySlot }

Tabs == {"generate", "submit", "other"}

\* What the producing tool's run returns: an article, an error payload, text
\* that is no JSON, the empty string, or JSON that is no object.
ProducedTexts ==
    { Dumps(JObj(<<[key |-> <<"title">>, value |-> JStr(<<"Test">>)]>>)),
      Dumps(JObj(<<[key |-> <<"title">>,
                    value |-> JStr(<<"trial", SP, "and", SP, "error">>)]>>)),
      ErrorPayload(<<"Failed to generate main metadata: timeout">>),
      <<"Sorry,", SP, "no", SP, "article", SP, "today">>,
      <<>>,
      <<QT, "fine", QT>>,
      <<QT, "an", SP, "error", SP, "occurred", QT>>,
      <<LSB, QT, "error", QT, RSB>> }

\* 'error' in article_data, for what json.loads returned: a key of a dict, an
\* element of a list, a part of a str.
ErrorIn(value) ==
    IF value.type = "obj"
    THEN \E n \in 1..Len(value.pairs) : value.pairs[n].key = <<"error">>
    ELSE IF value.type = "list"
    THEN \E n \in 1..Len(value.items) : value.items[n] = <<"error">>
    ELSE InText(value.chars)

\* The checks between the producing tool and the posting tool: the string is
\* not empty, json.loads accepts it and 'error' is not in what it returns.
PostableIgnoringError(text) ==
    /\ text # <<>>
    /\ Loads(text).ok
Postable(text) ==
    /\ text # <<>>
    /\ Loads(text).ok
    /\ ~ErrorIn(Loads(text).value)

\* The tool that produces the article of a slot.
ProducingTool ==
    IF server = "tabbed" /\ active_tab = "submit"
    THEN "add_metadata_to_article"
    ELSE "generate_article_and_metadata"

\* The slot has what the workflow needs to call the producing tool.
Processable(n) ==
    IF server = "direct"
    THEN config_data[n].source_url /\ config_data[n].prompt
    ELSE IF active_tab = "generate" THEN config_data[n].source_url
    ELSE IF active_tab = "submit" THEN config_data[n].article_text
    ELSE FALSE

Called(n, tool, outcome) == [slot |-> n, tool |-> tool, outcome |-> outcome]

InitWorkflow ==
    /\ AgentUnused
    /\ MemoryUnused
    /\ AdapterUnused
    /\ RunnableUnused
    /\ JournalistUnused
    /\ server \in {"direct", "tabbed"}
    /\ config_data \in [1..LastSlot -> SlotConfigs]
    /\ active_tab \in (IF server = "direct" THEN {"generate"} ELSE Tabs)
    /\ w_pc = "idle"
    /\ slot = 1
    /\ article_json_string = NoToolResult
    /\ w_calls = <<>>

\* journalist_workflow(config_data) is called.
JournalistWorkflow ==
    /\ w_pc = "idle"
    /\ w_pc' = "loop"
    /\ UNCHANGED <<outsideWorkflow, server, config_data, active_tab, slot,
                   article_json_string, w_calls>>

\* The slot lacks what is needed: continue.
SkipSlot ==
    /\ w_pc = "loop"
    /\ slot <= LastSlot
    /\ ~Processable(slot)
    /\ slot' = slot + 1
    /\ article_json_string' = NoToolResult
    /\ UNCHANGED <<outsideWorkflow, server, config_data, active_tab, w_pc,
                   w_calls>>

\* The producing tool returns; the string is parsed and checked.
ProduceReturns ==
    /\ w_pc = "loop"
    /\ slot <= LastSlot
    /\ Processable(slot)
    /\ \E text \in ProducedTexts :
          /\ w_calls' = Append(w_calls,
                 Called(slot, ProducingTool, ToolReturned(text)))
          /\ article_json_string' = ToolReturned(text)
          /\ IF Postable(text)
             THEN w_pc' = "post" /\ UNCHANGED slot
             ELSE w_pc' = "loop" /\ slot' = slot + 1
    /\ UNCHANGED <<outsideWorkflow, server, config_data, active_tab>>

\* The producing tool raises: except Exception: continue.
ProduceRaises ==
    /\ w_pc = "loop"
    /\ slot <= LastSlot
    /\ Processable(slot)
    /\ w_calls' = Append(w_calls,
           Called(slot, ProducingTool, ToolRaised("RuntimeError")))
    /\ article_json_string' = NoToolResult
    /\ slot' = slot + 1
    /\ UNCHANGED <<outsideWorkflow, server, config_data, active_tab, w_pc>>

\* post_article_to_cms.run(article_json_string=...) returns or raises;
\* either way the loop goes on to the next slot.
PostArticle ==
    /\ w_pc = "post"
    /\ \E outcome \in {ToolReturned(<<"posted">>), ToolRaised("RuntimeError")} :
          w_calls' = Append(w_calls,
              Called(slot, "post_article_to_cms",
                     [outcome EXCEPT !.text = article_json_string.text]))
    /\ slot' = slot + 1
    /\ w_pc' = "loop"
    /\ UNCHANGED <<outsideWorkflow, server, config_data, active_tab,
                   article_json_string>>

\* The loop is exhausted.
WorkflowComplete ==
    /\ w_pc = "loop"
    /\ slot > LastSlot
    /\ w_pc' = "done"
    /\ UNCHANGED <<outsideWorkflow, server, config_data, active_tab, slot,
                   article_json_string, w_calls>>

NextWorkflow ==
    \/ JournalistWorkflow
    \/ SkipSlot
    \/ ProduceReturns
    \/ ProduceRaises
    \/ PostArticle
    \/ WorkflowComplete

SpecWorkflow == InitWorkflow /\ [][NextWorkflow]_vars

\* The calls of post_article_to_cms made for a slot.
PostsOf(n) ==
    {k \in 1..Len(w_calls) :
        w_calls[k].slot = n /\ w_calls[k].tool = "post_article_to_cms"}

\* The calls of a producing tool made for a slot.
ProducedFor(n) ==
    {k \in 1..Len(w_calls) :
        w_calls[k].slot = n /\ w_calls[k].tool # "post_article_to_cms"}

\* The text is strict JSON and, if an object, has no key "error".
JsonWithoutErrorKey(text) ==
    /\ Loads(text).ok
    /\ ~IsErrorPayload(text)

\* The k-th call is a post that directly follows a call of one of the given
\* tools for the same slot, which returned JSON without an error key, the
\* string that is posted.
PostFollows(k, producers) ==
    /\ k > 1
    /\ w_calls[k - 1].slot = w_calls[k].slot
    /\ w_calls[k - 1].tool \in producers
    /\ w_calls[k - 1].outcome.kind = "returned"
    /\ JsonWithoutErrorKey(w_calls[k - 1].outcome.text)
    /\ w_calls[k].outcome.text = w_calls[k - 1].outcome.text

\* The slots are processed in the order 1, 2, 3, each at most once.
SlotsInOrder ==
    /\ \A k \in 1..(Len(w_calls) - 1) : w_calls[k].slot <= w_calls[k + 1].slot
    /\ \A n \in 1..LastSlot :
          /\ Cardinality(PostsOf(n)) <= 1
          /\ Cardinality(ProducedFor(n)) <= 1

\* C27 as stated: for each slot, in the order 1..3, post_article_to_cms is
\* called at most once and only after generate_article_and_metadata returned,
\* for that slot, a string that parses as JSON and has no error key.
C27_Original ==
    /\ SlotsInOrder
    /\ \A n \in 1..LastSlot : \A k \in PostsOf(n) :
          PostFollows(k, {"generate_article_and_metadata"})

\* C27 amended: for each slot, in the order 1..3, post_article_to_cms is
\* called at most once and only after the tool that produces the slot's
\* article returned a string that parses as JSON and has no error key: that
\* tool is generate_article_and_metadata, or add_metadata_to_article when the
\* request of src/app/server.py has active_tab = 'submit'.  A slot whose
\* producing tool raised, returned an error payload or unparseable text is
\* never posted.
C27_PostOnlyAfterProducedArticle ==
    /\ SlotsInOrder
    /\ \A n \in 1..LastSlot :
          /\ \A k \in PostsOf(n) : PostFollows(k, {ProducingTool})
          /\ \A k \in ProducedFor(n) :
                ( \/ w_calls[k].outcome.kind = "raised"
                  \/ ~JsonWithoutErrorKey(w_calls[k].outcome.text) )
                => PostsOf(n) = {}

\* C27 witness: the workflow is complete; slot 1 returned an error payload
\* and was not posted, slot 2 raised, slot 3 was produced and posted.
C27_Witness ==
    /\ w_pc = "done"
    /\ PostsOf(1) = {} /\ PostsOf(2) = {} /\ PostsOf(3) # {}
    /\ \E k \in ProducedFor(1) :
          /\ w_calls[k].outcome.kind = "returned"
          /\ IsErrorPayload(w_calls[k].outcome.text)
    /\ \E k \in ProducedFor(2) : w_calls[k].outcome.kind = "raised"

\* C30: when the chat-model call inside save_context of a summary memory
\* fails, the stored synopsis is left exactly as it was and the failure
\* reaches the caller of save_context; the synopsis is replaced only by the
\* content of a model call that has returned (and emptied only by clear).
C30_FailedSummaryCallKeepsSynopsis ==
    [][memory_class = "summary" =>
        \A m \in MemoryObjects :
            LET calls == memory_log[m].llm_calls
                after == memory_log[m].llm_calls'
            IN  /\ (Len(after) = Len(calls) + 1 /\ Last(after).raised) =>
                      /\ memory[m].summary' = memory[m].summary
                      /\ memory_op' = [op |-> "save_raised", obj |-> m]
                /\ memory[m].summary' # memory[m].summary =>
                      \/ /\ Len(after) = Len(calls) + 1
                         /\ ~Last(after).raised
                         /\ memory[m].summary' = Last(after).content
                         /\ memory_op' = [op |-> "save", obj |-> m]
                      \/ /\ memory_op' = [op |-> "clear", obj |-> m]
                         /\ memory[m].summary' = <<>>
    ]_vars

\* C30 witness: a save_context whose model call failed has just raised, and
\* the synopsis is still the non-empty content the call before it returned.
C30_Witness ==
    /\ memory_class = "summary"
    /\ LastOp("save_raised", 1)
    /\ Len(memory_log[1].llm_calls) >= 2
    /\ Last(memory_log[1].llm_calls).raised
    /\ ~memory_log[1].llm_calls[Len(memory_log[1].llm_calls) - 1].raised
    /\ memory[1].summary # <<>>
    /\ memory[1].summary =
          memory_log[1].llm_calls[Len(memory_log[1].llm_calls) - 1].content

====
